---------------------------- MODULE Spec2Model ----------------------------
(***************************************************************************)
(* A model of the PD1 processing pipeline of mf-prior-bench                *)
(* (mfpbench/pd1/processing/process_script.py)                             *)
(* and of the query interface of its benchmarks (mfpbench/yahpo,           *)
(* mfpbench/jahs, mfpbench/synthetic/hartmann).                            *)
(*                                                                         *)
(* The specifications of the module:                                       *)
(*   SpecTabular  preprocess_csv_for_tabular_benchmark_dfs and             *)
(*                handle_subepoch_fidelities on one written tabular csv    *)
(*   SpecReshape  the per-group body of process_pd1 (accumulate, explode,  *)
(*                filter, deduplicate, write)                              *)
(*   SpecUnpack   Datapack._unpack and the archive loop of process_pd1     *)
(*                over a file system, across several runs                  *)
(*   SpecQuery    one call of query or trajectory on a YAHPO, JAHS or      *)
(*                MFHartmann benchmark                                     *)
(*   SpecYahpo    processes that construct and run YAHPO benchmarks        *)
(*                concurrently, and their yahpo settings files             *)
(*   SpecFrame    the operations of a ResultFrame                          *)
(*   SpecDownload runs of the download script (mfpbench/download.py) over  *)
(*                the data directory                                       *)
(* Each specification leaves the variables of the others at their idle     *)
(* value.                                                                  *)
(*                                                                         *)
(* Tables are sequences of rows (records). An undefined cell (NaN / None)  *)
(* is the integer NaN == -1; every defined number of the model is >= 0.    *)
(* Arithmetic that numpy does in floating point (linspace, quantile) is    *)
(* modelled exactly, over integers.                                        *)
(***************************************************************************)
EXTENDS Integers, Sequences, FiniteSets, TLC

VARIABLES
    \* ---- tabular re-indexer
    path,       \* the group whose <fname>_tabular.csv is re-indexed
    csv,        \* rows of the csv file read at line 347
    df,         \* the data frame the function works on
    unique_df,  \* index labels of the representative row of each config
    df_backup,  \* handle_subepoch_fidelities: the renumbered frame
    nLast,      \* len(_idx_match): rows of the last config id
    nIds,       \* len(unique_ids)
    jump,       \* position in the list of jump steps
    parquet,    \* the parquet files written, by stride (0: the plain file)
    exc,        \* the exception that ended the function ("" if none)
    pcT,        \* position in the function
    \* ---- per-group reshaper of process_pd1
    fname,            \* (name, model, batchsize) of the group
    process_tabular,  \* the processing mode
    group,            \* _dataset: the group's rows of the assembled table
    dataset,          \* the table being reshaped
    columns,          \* the bookkeeping columns the table still has
    written,          \* the csv file written for the group
    excR,             \* the exception that ended process_pd1 ("" if none)
    groupsLeft,       \* the groups the loop has still to visit after this one
    pcR               \* position in the loop body

    \* the archives, their unpacked caches and the runs of process_pd1
VARIABLES
    tarball,     \* data.tar.gz: whether it exists, and the archives it holds
    fulltable,   \* whether full.csv exists
    readme,      \* whether raw/README.txt exists
    archive,     \* raw/<rawname>.jsonl.gz of every pack
    unpacked,    \* raw/<rawname>_unpacked.csv of every pack
    writes,      \* how often each unpacked csv has been written
    firstWrite,  \* what the first write of each unpacked csv wrote
    dfs,         \* the tables unpacked so far in this run
    full_df,     \* the assembled table of this run
    packIdx,     \* position of the loop over the packs
    outputs,     \* whether this run has written a surrogate or tabular file
    runs,        \* the runs of process_pd1 started so far
    excU,        \* the exception that ended the run ("" if none)
    pcU          \* position in process_pd1

varsR == <<fname, process_tabular, group, dataset, columns, written, excR, groupsLeft,
           pcR>>

varsU == <<tarball, fulltable, readme, archive, unpacked, writes, firstWrite, dfs,
           full_df, packIdx, outputs, runs, excU, pcU>>

varsT == <<path, csv, df, unique_df, df_backup, nLast, nIds, jump, parquet, exc, pcT>>

    \* a call of query or trajectory on a benchmark
VARIABLES
    call,          \* the benchmark, the method and its arguments
    backendCalls,  \* the calls made on the wrapped backend, in order
    results,       \* the results the method returns
    excQ,          \* the exception that ended the call ("" if none)
    pcQ            \* "idle", "ready", "returned" or "raised"

varsQ == <<call, backendCalls, results, excQ, pcQ>>

IdleQ ==
    /\ call = <<>>
    /\ backendCalls = <<>>
    /\ results = <<>>
    /\ excQ = ""
    /\ pcQ = "idle"

    \* processes that construct YAHPO benchmarks
VARIABLES
    settings_path, \* per process: yahpo_gym.local_config.settings_path
    yfiles,        \* the yahpo settings files on disk, each with its data_path
    accesses,      \* which process has read or written which settings file
    handed,        \* per process: the values uuid.uuid4() has returned
    pcY            \* per process: "idle", or "ensured" inside __init__

varsY == <<settings_path, yfiles, accesses, handed, pcY>>

IdleY ==
    /\ settings_path = <<>>
    /\ yfiles = {}
    /\ accesses = {}
    /\ handed = <<>>
    /\ pcY = <<>>

    \* a ResultFrame
VARIABLES
    ctor,          \* _ctor: config -> the results of the config
    ftor,          \* _ftor: fidelity -> the results at the fidelity
    result_order,  \* _result_order: the results in the order they were added
    ret            \* the last operation on the frame and its outcome

varsF == <<ctor, ftor, result_order, ret>>

IdleF ==
    /\ ctor = <<>>
    /\ ftor = <<>>
    /\ result_order = <<>>
    /\ ret = <<>>

    \* runs of the download script
VARIABLES
    dirs,          \* per source: its directory is "absent", "partial" or "complete"
    force,         \* --force of the current run
    srcIdx,        \* position of the loop of the current run in the sources
    events,        \* what the current run did, one record per source handled
    runsD,         \* runs started so far
    excD,          \* the exception that ended the current run ("" if none)
    pcD            \* "idle", "stopped", "running", "done" or "raised"

varsD == <<dirs, force, srcIdx, events, runsD, excD, pcD>>

IdleD ==
    /\ dirs = <<>>
    /\ force = FALSE
    /\ srcIdx = 0
    /\ events = <<>>
    /\ runsD = 0
    /\ excD = ""
    /\ pcD = "idle"

vars == <<varsT, varsR, varsU, varsQ, varsY, varsF, varsD>>

NaN == -1

-----------------------------------------------------------------------------
(* Helpers on finite sets and sequences                                    *)

Range(s) == {s[i] : i \in DOMAIN s}

Min(a, b) == IF a <= b THEN a ELSE b

\* The ascending sequence of a finite set of integers (sorted(...)).
RECURSIVE SortedSeq(_)
SortedSeq(S) ==
    IF S = {} THEN <<>>
    ELSE LET m == CHOOSE x \in S : \A y \in S : x <= y
         IN  <<m>> \o SortedSeq(S \ {m})

\* 1-based rank of v among the values of the finite set S.
Rank(S, v) == Cardinality({x \in S : x <= v})

RECURSIVE ConcatAll(_)
ConcatAll(ss) == IF ss = <<>> THEN <<>> ELSE Head(ss) \o ConcatAll(Tail(ss))

-----------------------------------------------------------------------------
(* Bounds of the tabular inputs                                            *)

MaxRecords == 3     \* source records (exploded blocks) in one tabular csv
MaxHP == 3          \* distinct hyperparameter tuples
MaxNanPos == 2      \* the undefined metric cell, if any, is at one of the first steps of a record
LenVals == {2, 3, 11}   \* number of steps of a source record

HPValues == 1..MaxHP

\* The step value a source record reports at list position i (PD1 counts from 0).
RawEpoch(i) == 2 * (i - 1)

\* The groups the tabular inputs are drawn from: one epoch-level, and one for
\* each name fragment that marks a sub-epoch dataset.
TabularGroups ==
    { [dataset |-> "cifar100", model |-> "wide_resnet", batchsize |-> 2048],
      [dataset |-> "imagenet", model |-> "resnet", batchsize |-> 512],
      [dataset |-> "uniref50", model |-> "transformer", batchsize |-> 128],
      [dataset |-> "translate_wmt", model |-> "xformer_translate", batchsize |-> 64] }

TabRecords == [hp : HPValues, len : LenVals]

TabRecSeqs == UNION {[1..n -> TabRecords] : n \in 1..MaxRecords}

\* The rows one source record explodes to (process_pd1, line 224), as they
\* appear in the csv: hyperparameters, step, one metric column. nanPos > 0
\* makes the metric at that list position undefined.
BlockOf(r, nanPos) ==
    [i \in 1..r.len |->
        [hp |-> r.hp, epoch |-> RawEpoch(i),
         metric |-> IF i = nanPos THEN NaN ELSE 1]]

\* read_csv gives the rows a RangeIndex 0..n-1 (idx). At most one record,
\* nanRec, has an undefined metric cell.
CsvOf(rs, nanRec, nanPos) ==
    LET rows == ConcatAll([k \in DOMAIN rs |->
                    BlockOf(rs[k], IF k = nanRec THEN nanPos ELSE 0)])
    IN  [i \in DOMAIN rows |->
            [idx |-> i - 1, hp |-> rows[i].hp, epoch |-> rows[i].epoch,
             metric |-> rows[i].metric]]

TabularInputs ==
    {CsvOf(rs, 0, 0) : rs \in TabRecSeqs}
    \cup {CsvOf(rs, k, n) : rs \in TabRecSeqs, k \in 1..MaxRecords, n \in 1..MaxNanPos}

-----------------------------------------------------------------------------
(* preprocess_csv_for_tabular_benchmark_dfs                                *)

IndexLabels(d) == {d[i].idx : i \in DOMAIN d}

\* df.loc[:, HPS].drop_duplicates().index: the label of the first row of
\* every distinct hyperparameter tuple, ascending.
FirstOccurrences(d) ==
    SortedSeq({d[i].idx : i \in {j \in DOMAIN d :
                  \A k \in 1..(j - 1) : d[k].hp # d[j].hp}})

\* unique_df.index.diff().values[1:]
IndexDiff(u) == [k \in 1..(Len(u) - 1) |-> u[k + 1] - u[k]]

\* np.insert(arr, -1, x): the index -1 is normalised to len(arr) - 1, so x
\* goes BEFORE the last element; on an empty array the index is out of bounds.
NpInsertMinus1(arr, x) ==
    SubSeq(arr, 1, Len(arr) - 1) \o <<x>> \o <<arr[Len(arr)]>>

\* idx_count of lines 351-355 (u is non-empty with at least two entries).
IdxCount(d, u) ==
    NpInsertMinus1(IndexDiff(u), d[Len(d)].idx - u[Len(u)] + 1)

\* uniques[counts.argmax()]: np.unique sorts ascending and argmax takes the first
\* maximum, so this is the smallest of the most frequent values.
MostFrequent(c) ==
    LET Count(v) == Cardinality({k \in DOMAIN c : c[k] = v})
    IN  CHOOSE v \in Range(c) :
            \A w \in Range(c) :
                Count(w) < Count(v) \/ (Count(w) = Count(v) /\ v <= w)

\* np.where(idx_count != mode)[0], as positions 1..m
ToRemove(c) == {k \in DOMAIN c : c[k] # MostFrequent(c)}

\* all_rows_to_remove of lines 361-365
AllRowsToRemove(c, u) ==
    UNION {u[k]..(u[k] + c[k] - 1) : k \in ToRemove(c)}

DropRows(d, labels) ==
    LET Keep(r) == r.idx \notin labels IN SelectSeq(d, Keep)

DropLabels(u, labels) ==
    LET Keep(x) == x \notin labels IN SelectSeq(u, Keep)

\* Lines 370-371: the id column, aligned on the index of df, forward filled.
\* A row before the first labelled row keeps NaN.
RECURSIVE FFill(_, _)
FFill(col, last) ==
    IF col = <<>> THEN <<>>
    ELSE LET v == IF Head(col) = NaN THEN last ELSE Head(col)
         IN  <<v>> \o FFill(Tail(col), v)

IdSeries(d, u) ==
    [i \in DOMAIN d |->
        IF \E j \in DOMAIN u : u[j] = d[i].idx
        THEN CHOOSE j \in DOMAIN u : u[j] = d[i].idx
        ELSE NaN]

WithIds(d, u) ==
    LET ids == FFill(IdSeries(d, u), NaN)
    IN  [i \in DOMAIN d |->
            [idx |-> d[i].idx, hp |-> d[i].hp, epoch |-> d[i].epoch,
             metric |-> d[i].metric, id |-> ids[i],
             original_steps |-> d[i].epoch]]

\* fidelity_is_sub_epoch: "imagenet", "uniref" or "xformer" occurs in the file name
FidelityIsSubEpoch(p) ==
    \/ p.dataset \in {"imagenet"}
    \/ p.dataset \in {"uniref50"}
    \/ p.model \in {"xformer_translate"}

\* Lines 347-368: read the csv, count the rows of every config and drop the
\* configs whose count differs from the most frequent one.
\*   df.index.values[-1] on an empty table, np.insert(..., -1, ...) on an empty
\*   array (one config only): IndexError;
\*   df.drop(index=...) with a label that is not in the index: KeyError.
RemoveStep(d) ==
    LET u == FirstOccurrences(d)
    IN  IF Len(d) = 0 \/ Len(u) = 1
        THEN [exc |-> "IndexError", df |-> d, unique_df |-> u]
        ELSE LET c    == IdxCount(d, u)
                 rows == AllRowsToRemove(c, u)
             IN  IF ~(rows \subseteq IndexLabels(d))
                 THEN [exc |-> "KeyError", df |-> d, unique_df |-> u]
                 ELSE [exc |-> "", df |-> DropRows(d, rows),
                       unique_df |-> DropLabels(u, {u[k] : k \in ToRemove(c)})]

\* The id the epoch-level mapping is built from (df.id == 0, line 391).
MappingId == 0

\* Lines 389-394: {value: i for i, value in enumerate(<epochs of the rows whose
\* id is MappingId>, start=1)} applied with Series.map: a value that is not a key
\* maps to NaN; a repeated value keeps its last position.
MapEpoch(d, e) ==
    LET IsFirst(r) == r.id = MappingId
        keys == SelectSeq(d, IsFirst)
        hits == {i \in DOMAIN keys : keys[i].epoch = e}
    IN  IF hits = {} THEN NaN ELSE CHOOSE i \in hits : \A j \in hits : j <= i

EpochLevelTable(d) ==
    [i \in DOMAIN d |-> [d[i] EXCEPT !.epoch = MapEpoch(d, d[i].epoch)]]

-----------------------------------------------------------------------------
(* handle_subepoch_fidelities                                              *)

JumpSteps == <<1, 2, 5, 10>>

\* df.id.unique(): the ids in order of first appearance
UniqueIds(d) ==
    LET firsts == {i \in DOMAIN d : \A k \in 1..(i - 1) : d[k].id # d[i].id}
        pos == SortedSeq(firsts)
    IN  [k \in DOMAIN pos |-> d[pos[k]].id]

\* Lines 407-412: every config's steps are renumbered 1..(its number of rows).
Renumbered(d) ==
    [i \in DOMAIN d |->
        [d[i] EXCEPT !.epoch =
            Cardinality({k \in 1..i : d[k].id = d[i].id})]]

\* len(_idx_match) after the loop: the rows of the last unique id
LastIdRows(d) ==
    LET ids == UniqueIds(d)
    IN  Cardinality({i \in DOMAIN d : d[i].id = ids[Len(ids)]})

\* np.linspace(1, n, num=n // k, endpoint=True, dtype=int); retstep=k only asks
\* for the step to be returned as well. Exact arithmetic, truncated.
RetainList(n, k) ==
    LET num == n \div k
    IN  IF num = 0 THEN {}
        ELSE IF num = 1 THEN {1}
        ELSE {1 + ((i * (n - 1)) \div (num - 1)) : i \in 0..(num - 1)}

\* drop_list = set(0..n) - set(_retain_list)
DropList(n, k) == (0..n) \ RetainList(n, k)

\* Line 423: the steps of the drop list become NaN.
Nulled(d, n, k) ==
    [i \in DOMAIN d |->
        [d[i] EXCEPT !.epoch = IF d[i].epoch \in DropList(n, k) THEN NaN ELSE @]]

\* Line 424: df.dropna() drops a row that has NaN in ANY column.
HasNaN(r) ==
    \/ r.epoch = NaN
    \/ r.metric = NaN
    \/ r.original_steps = NaN
    \/ r.id = NaN

DropNa(d) ==
    LET Keep(r) == ~HasNaN(r) IN SelectSeq(d, Keep)

\* Lines 426-432: set_index and the two set_levels calls. The levels of an
\* index level are its sorted distinct values; set_levels replaces the i-th of
\* them by the i-th new value, and fails when there are fewer new values than
\* levels in use. The fields cfg and step keep the values before the
\* replacement (they are not columns of the file).
Relevelled(d) ==
    LET ids   == {d[i].id : i \in DOMAIN d}
        steps == {d[i].epoch : i \in DOMAIN d}
    IN  [i \in DOMAIN d |->
            [idx |-> d[i].idx, hp |-> d[i].hp, metric |-> d[i].metric,
             original_steps |-> d[i].original_steps,
             cfg |-> d[i].id, step |-> d[i].epoch,
             id |-> Rank(ids, d[i].id), epoch |-> Rank(steps, d[i].epoch)]]

\* len(df.loc[1].index): the rows of the smallest config id left
RowsOfFirstId(d) ==
    Cardinality({i \in DOMAIN d : \A j \in DOMAIN d : d[i].id <= d[j].id})

\* One pass of the loop body, lines 416-434, for jump step k.
SubsampleStep(backup, n, k) ==
    LET d == DropNa(Nulled(backup, n, k))
    IN  IF d = <<>>
        THEN [exc |-> "KeyError", table |-> <<>>]
        ELSE IF RowsOfFirstId(d) < Cardinality({d[i].epoch : i \in DOMAIN d})
        THEN [exc |-> "ValueError", table |-> <<>>]
        ELSE [exc |-> "", table |-> Relevelled(d)]

-----------------------------------------------------------------------------
(* The tabular re-indexer as a state machine                               *)

\* A parquet file: whether it has been written, and its rows.
NotWritten == [written |-> FALSE, rows |-> <<>>]

File(t) == [written |-> TRUE, rows |-> t]

\* The variables of the re-indexer before the function is called (pc "idle"),
\* and at its call on the csv c of group p (pc "read").
TabularVars(p, c, pc) ==
    /\ path = p
    /\ csv = c
    /\ df = <<>>
    /\ unique_df = <<>>
    /\ df_backup = <<>>
    /\ nLast = 0
    /\ nIds = 0
    /\ jump = 0
    /\ parquet = [k \in {0} \cup Range(JumpSteps) |-> NotWritten]
    /\ exc = ""
    /\ pcT = pc

IdleT == TabularVars([dataset |-> "", model |-> "", batchsize |-> 0], <<>>, "idle")

InitT ==
    \E p \in TabularGroups, c \in TabularInputs : TabularVars(p, c, "read")

\* Lines 347-368
ReadAndRemove ==
    /\ pcT = "read"
    /\ LET r == RemoveStep(csv)
       IN  /\ df' = r.df
           /\ unique_df' = r.unique_df
           /\ exc' = r.exc
           /\ pcT' = IF r.exc = "" THEN "ids" ELSE "raised"
    /\ UNCHANGED <<path, csv, df_backup, nLast, nIds, jump, parquet>>

\* Lines 370-373: astype(int) raises when a row is left without an id.
AssignIds ==
    /\ pcT = "ids"
    /\ LET d == WithIds(df, unique_df)
       IN  IF \E i \in DOMAIN d : d[i].id = NaN
           THEN /\ exc' = "IntCastingNaNError"
                /\ pcT' = "raised"
                /\ df' = df
           ELSE /\ exc' = exc
                /\ pcT' = "branch"
                /\ df' = d
    /\ UNCHANGED <<path, csv, unique_df, df_backup, nLast, nIds, jump, parquet>>

\* Lines 387-398: the epoch-level branch
EpochLevel ==
    /\ pcT = "branch"
    /\ ~FidelityIsSubEpoch(path)
    /\ df' = EpochLevelTable(df)
    /\ parquet' = [parquet EXCEPT ![0] = File(df')]
    /\ pcT' = "done"
    /\ UNCHANGED <<path, csv, unique_df, df_backup, nLast, nIds, jump, exc>>

\* Lines 384-386, 405-413: the sub-epoch branch up to df_backup. With no row
\* left, _idx_match is never bound and line 419 raises.
SubEpochRenumber ==
    /\ pcT = "branch"
    /\ FidelityIsSubEpoch(path)
    /\ IF df = <<>>
       THEN /\ exc' = "UnboundLocalError"
            /\ pcT' = "raised"
            /\ UNCHANGED <<df, df_backup, nLast, nIds, jump>>
       ELSE /\ df' = Renumbered(df)
            /\ df_backup' = df'
            /\ nLast' = LastIdRows(df)
            /\ nIds' = Len(UniqueIds(df))
            /\ jump' = 1
            /\ pcT' = "stride"
            /\ exc' = exc
    /\ UNCHANGED <<path, csv, unique_df, parquet>>

\* Lines 415-434: one pass of the loop over the jump steps
Subsample ==
    /\ pcT = "stride"
    /\ LET k == JumpSteps[jump]
           r == SubsampleStep(df_backup, nLast, k)
       IN  IF r.exc # ""
           THEN /\ exc' = r.exc
                /\ pcT' = "raised"
                /\ UNCHANGED <<df, jump, parquet>>
           ELSE /\ df' = r.table
                /\ parquet' = [parquet EXCEPT ![k] = File(r.table)]
                /\ jump' = jump + 1
                /\ pcT' = IF jump = Len(JumpSteps) THEN "done" ELSE "stride"
                /\ exc' = exc
    /\ UNCHANGED <<path, csv, unique_df, df_backup, nLast, nIds>>

NextT ==
    \/ ReadAndRemove /\ UNCHANGED <<varsR, varsU, varsQ, varsY, varsF, varsD>>
    \/ AssignIds /\ UNCHANGED <<varsR, varsU, varsQ, varsY, varsF, varsD>>
    \/ EpochLevel /\ UNCHANGED <<varsR, varsU, varsQ, varsY, varsF, varsD>>
    \/ SubEpochRenumber /\ UNCHANGED <<varsR, varsU, varsQ, varsY, varsF, varsD>>
    \/ Subsample /\ UNCHANGED <<varsR, varsU, varsQ, varsY, varsF, varsD>>


-----------------------------------------------------------------------------
(* Claims about the tabular re-indexer                                     *)

Written(k) == parquet[k].written

\* The (config, step) pairs, as they were before set_levels, of the rows of
\* the file of stride k.
Kept(k) ==
    {<<parquet[k].rows[i].cfg, parquet[k].rows[i].step>> : i \in DOMAIN parquet[k].rows}

ConfigsOf(d) == {d[i].id : i \in DOMAIN d}

StepsOf(d, c) == {d[i].epoch : i \in {j \in DOMAIN d : d[j].id = c}}

RowCount(d, c) == Cardinality({i \in DOMAIN d : d[i].id = c})

\* C2: in the parquet file of an epoch-level table the step index of every row
\* is a defined integer in 1..K, K the number of steps of the first
\* configuration, whose i-th step value is mapped to i.
C2_EpochLevelStepsDense ==
    (pcT = "done" /\ ~FidelityIsSubEpoch(path)) =>
        LET t == parquet[0].rows
            IsFirst(r) == r.id = t[1].id
            first == SelectSeq(t, IsFirst)
        IN  /\ \A i \in DOMAIN t : t[i].epoch # NaN /\ t[i].epoch \in 1..Len(first)
            /\ \A j \in DOMAIN first : first[j].epoch = j

\* C3: in every written stride file the config ids are exactly 1..C and every
\* config has exactly the steps 1..M, for one common M.
C3_StrideIndexDense ==
    \A k \in Range(JumpSteps) :
        Written(k) =>
            LET t == parquet[k].rows
                ids == ConfigsOf(t)
            IN  /\ ids = 1..Cardinality(ids)
                /\ \E m \in 0..Len(t) : \A c \in ids : StepsOf(t, c) = 1..m

\* C4: the rows kept at stride 2, 5, 10 are rows kept at stride 1, and the
\* step-1 row of every retained config is kept at every stride.
C4_SubsetOfStride1WithStep1 ==
    \A k \in Range(JumpSteps) :
        Written(k) =>
            /\ Kept(k) \subseteq Kept(1)
            /\ \A c \in ConfigsOf(df_backup) : <<c, 1>> \in Kept(k)

\* C5: at stride k the steps kept of a config renumbered 1..N are exactly the
\* stride grid 1, 1+k, 1+2k, ... (at most N).
C5_KeptStepsAreStrideGrid ==
    \A k \in Range(JumpSteps) :
        Written(k) =>
            \A c \in ConfigsOf(df_backup) :
                {p[2] : p \in {q \in Kept(k) : q[1] = c}}
                    = {s \in 1..RowCount(df_backup, c) : (s - 1) % k = 0}

\* C6: after the ids are assigned, the distinct retained configurations carry
\* the ids 1..n in order of first occurrence, two rows have the same id iff
\* they have the same hyperparameter tuple, and no row is without an id.
C6_IdsFollowConfigs ==
    pcT = "branch" =>
        /\ \A i \in DOMAIN df : df[i].id # NaN
        /\ ConfigsOf(df) = 1..Cardinality({df[i].hp : i \in DOMAIN df})
        /\ \A i, j \in DOMAIN df : (df[i].id = df[j].id) <=> (df[i].hp = df[j].hp)
        /\ \A i, j \in DOMAIN df : i <= j => df[i].id <= df[j].id \/
                (\E k \in 1..(i - 1) : df[k].hp = df[j].hp)

-----------------------------------------------------------------------------
(* process_pd1: the body of the loop over the dataset groups               *)

MaxRows == 2        \* source records in one group of the assembled table
MaxHPR == 2         \* distinct hyperparameter tuples in one group
MaxLeft == 1        \* groups the loop visits after the first one
MaxGroups == 21     \* hyperparameter groups of the inputs of the quantile filter

\* A list-valued cell and a scalar NaN cell of the assembled table.
List(xs) == [scalar |-> FALSE, items |-> xs]
ScalarNaN == [scalar |-> TRUE, items |-> <<>>]

\* The raw per-step cost lists the inputs are drawn from (None is NaN).
CostLists ==
    { List(<<1>>), List(<<2, 1>>), List(<<1, NaN>>), List(<<NaN, 1>>),
      List(<<10000>>), ScalarNaN }

\* product([True, False], [0, 1]), in the order of the loop at line 169
Packs ==
    << [matched |-> TRUE, phase |-> 0], [matched |-> TRUE, phase |-> 1],
       [matched |-> FALSE, phase |-> 0], [matched |-> FALSE, phase |-> 1] >>

Group(d, m, b) == [dataset |-> d, model |-> m, batchsize |-> b]

\* Lines 294-299
has_activation_fn ==
    { Group("fashion_mnist", "max_pooling_cnn", 256),
      Group("fashion_mnist", "max_pooling_cnn", 2048),
      Group("mnist", "max_pooling_cnn", 256),
      Group("mnist", "max_pooling_cnn", 2048) }

\* The groups the inputs are drawn from: the groups the code names, and one
\* it does not.
ReshapeGroups ==
    { Group("lm1b", "transformer", 2048),
      Group("uniref50", "transformer", 128),
      Group("imagenet", "resnet", 512),
      Group("cifar100", "wide_resnet", 2048),
      Group("imagenet", "resnet", 1024),
      Group("mnist", "max_pooling_cnn", 256),
      Group("svhn_no_extra", "wide_resnet", 1024) }

\* activation_fn varies in the four groups of has_activation_fn only.
ActivationFns(g) == IF g \in has_activation_fn THEN {1, 2} ELSE {1}

\* The step list of a source record with n steps: 0, 1, ...; uniref50 reports
\* the same step at every position (see uniref50_epoch_convert).
EpochList(g, c) ==
    IF c.scalar THEN ScalarNaN
    ELSE List([i \in 1..Len(c.items) |->
                 IF c.items[i] = NaN THEN NaN
                 ELSE IF g.dataset = "uniref50" THEN 0 ELSE i - 1])

SourceRows(g, hps) ==
    { [pack |-> p, hp |-> h, activation_fn |-> a, train_cost |-> c,
       epoch |-> EpochList(g, c)] :
        p \in DOMAIN Packs, h \in hps, a \in ActivationFns(g), c \in CostLists }

\* The rows of one group keep the order of the assembled table: by pack.
InPackOrder(rs) == \A i, j \in DOMAIN rs : i <= j => rs[i].pack <= rs[j].pack

GroupInputs(g) ==
    {rs \in UNION {[1..n -> SourceRows(g, 1..MaxHPR)] : n \in 1..MaxRows} :
        InPackOrder(rs)}

WideRow(h, c) ==
    [pack |-> 1, hp |-> h, activation_fn |-> 1, train_cost |-> List(<<c>>),
     epoch |-> List(<<0>>)]

WideInputs ==
    UNION { { [h \in 1..n |-> WideRow(h, IF h <= a THEN 1 ELSE IF h <= b THEN 2 ELSE 3)] :
                a \in 0..n, b \in 0..n } : n \in 1..MaxGroups }

\* Four-record groups for the groups of the quantile filter: one-step records
\* of two packs and three hyperparameter tuples, so that a tuple can have
\* records from both packs and pass the filter together with another tuple.
QuadInputs(g) ==
    LET recs == { r \in SourceRows(g, 1..3) :
                    /\ r.train_cost \in {List(<<1>>), List(<<10000>>)}
                    /\ r.pack \in {2, 3} }
    IN  {rs \in [1..4 -> recs] : InPackOrder(rs)}

\* Lines 38-56
uniref50_epoch_convert(x) ==
    IF x.scalar THEN x
    ELSE List([i \in 1..Len(x.items) |-> IF x.items[i] = NaN THEN NaN ELSE i])

RECURSIVE SumTo(_, _)
SumTo(xs, i) == IF i = 0 THEN 0 ELSE xs[i] + SumTo(xs, i - 1)

\* The values with None replaced by NaN, not accumulated
not_accumulated(x) ==
    IF x.scalar THEN List(<<NaN>>) ELSE List(x.items)

\* Lines 24-33: itertools.accumulate over the values with None replaced by NaN;
\* a sum with a NaN term is NaN. A scalar NaN gives the one-element list [NaN].
safe_accumulate(x) ==
    IF x.scalar THEN List(<<NaN>>)
    ELSE List([i \in 1..Len(x.items) |->
                 IF \E j \in 1..i : x.items[j] = NaN THEN NaN
                 ELSE SumTo(x.items, i)])

\* Lines 217-220. For a scalar NaN the test `r in (None, np.nan)` decides between
\* NaN and [NaN]; both explode to one row with an undefined cost.
Accumulated(rows) ==
    [k \in DOMAIN rows |->
        [rows[k] EXCEPT !.train_cost = safe_accumulate(rows[k].train_cost)]]

\* Lines 207-214
EpochConverted(g, tabular, rows) ==
    IF g.dataset = "uniref50" /\ ~tabular
    THEN [k \in DOMAIN rows |->
            [rows[k] EXCEPT !.epoch = uniref50_epoch_convert(rows[k].epoch)]]
    ELSE rows

CellAt(c, i) == IF c.scalar THEN NaN ELSE c.items[i]

\* One row per list position, each with the first element of every list
ExplodeRowRepeated(r, k) ==
    [i \in 1..Len(r.train_cost.items) |->
        [matched |-> Packs[r.pack].matched, phase |-> Packs[r.pack].phase,
         hp |-> r.hp, activation_fn |-> r.activation_fn,
         epoch |-> CellAt(r.epoch, 1), train_cost |-> CellAt(r.train_cost, 1),
         rec |-> k, pos |-> i]]

\* Line 224: one row per list position of a source row; rec and pos name the
\* source row and the list position (they are not columns).
ExplodeRow(r, k) ==
    [i \in 1..Len(r.train_cost.items) |->
        [matched |-> Packs[r.pack].matched, phase |-> Packs[r.pack].phase,
         hp |-> r.hp, activation_fn |-> r.activation_fn,
         epoch |-> CellAt(r.epoch, i), train_cost |-> CellAt(r.train_cost, i),
         rec |-> k, pos |-> i]]

Explode(rows) == ConcatAll([k \in DOMAIN rows |-> ExplodeRow(rows[k], k)])

\* No row removed, whatever its cost
KeepNanCost(d) == d

\* Lines 229-233
DropNanCost(d) ==
    LET Keep(r) == r.train_cost # NaN IN SelectSeq(d, Keep)

\* No row removed, whatever its cost
CostUnbounded(d, limit) == d

\* Lines 240 and 245
CostBelow(d, limit) ==
    LET Keep(r) == r.train_cost < limit IN SelectSeq(d, Keep)

Lm1bLimit == 10000
Uniref50Limit == 4000
Q95 == 95
Q93 == 93

\* dataset.groupby(hp_names): the groups in ascending key order, each with its
\* rows in table order
GroupKeys(d) == SortedSeq({d[i].hp : i \in DOMAIN d})

GroupRows(d, h) ==
    LET Keep(r) == r.hp = h IN SelectSeq(d, Keep)

MaxCost(rows) ==
    CHOOSE m \in {rows[i].train_cost : i \in DOMAIN rows} :
        \A i \in DOMAIN rows : rows[i].train_cost <= m

\* 100 * np.quantile(maxes, q / 100), linear interpolation between the two
\* order statistics around position (n - 1) * q / 100
Quantile100(maxes, q) ==
    LET s   == SortSeq(maxes, LAMBDA a, b : a < b)
        pos == (Len(s) - 1) * q
        lo  == (pos \div 100) + 1
        rem == pos % 100
    IN  IF rem = 0 THEN 100 * s[lo]
        ELSE 100 * s[lo] + rem * (s[lo + 1] - s[lo])

\* Lines 255-266 and 276-287: the groups whose maximum cost is below the
\* quantile of the maxima. Without a group that is kept pd.concat raises
\* ValueError ("No objects to concatenate"); without any group the run ends in
\* an exception as well, in np.quantile or in pd.concat, named ValueError here.
KeptByQuantile(d, q) ==
    LET keys  == GroupKeys(d)
        maxes == [k \in DOMAIN keys |-> MaxCost(GroupRows(d, keys[k]))]
        Below(h) == 100 * MaxCost(GroupRows(d, h)) < Quantile100(maxes, q)
    IN  SelectSeq(keys, Below)

QuantileFilter(d, q) ==
    LET keep == KeptByQuantile(d, q)
    IN  ConcatAll([k \in DOMAIN keep |-> GroupRows(d, keep[k])])

\* Lines 238-287: the special-case filters, all of them in surrogate mode only
SpecialFilter(g, tabular, d) ==
    IF tabular THEN [exc |-> "", rows |-> d]
    ELSE IF g = Group("lm1b", "transformer", 2048)
    THEN [exc |-> "", rows |-> CostBelow(d, Lm1bLimit)]
    ELSE IF g = Group("uniref50", "transformer", 128)
    THEN [exc |-> "", rows |-> CostBelow(d, Uniref50Limit)]
    ELSE IF g \in {Group("imagenet", "resnet", 512), Group("cifar100", "wide_resnet", 2048)}
    THEN LET q == IF g.dataset = "imagenet" THEN Q95 ELSE Q93
         IN  IF d = <<>> \/ KeptByQuantile(d, q) = <<>>
             THEN [exc |-> "ValueError", rows |-> d]
             ELSE [exc |-> "", rows |-> QuantileFilter(d, q)]
    ELSE [exc |-> "", rows |-> d]

\* The bookkeeping columns and activation_fn, for every group
DroppedColumnsAll(g, tabular) == {"dataset", "model", "batch_size", "activation_fn"}

\* Lines 300-307: the columns dropped from the table
DroppedColumns(g, tabular) ==
    {"dataset", "model", "batch_size"}
        \cup (IF tabular \/ g \notin has_activation_fn THEN {"activation_fn"} ELSE {})

\* The mask matched and phase 1, for every group
TabularMaskMatchedPhase1(g, d) ==
    LET Keep(r) == r.matched /\ r.phase = 1 IN SelectSeq(d, Keep)

\* Lines 312-316
TabularMask(g, d) ==
    LET Keep(r) ==
            IF g = Group("imagenet", "resnet", 1024)
            THEN ~r.matched /\ r.phase = 0
            ELSE r.matched /\ r.phase = 1
    IN  SelectSeq(d, Keep)

\* A key that tells the rows of different packs apart
DedupKeyPerPack(g, r) == <<r.hp, r.activation_fn, r.epoch, r.matched, r.phase>>

\* Lines 327-328: the columns of the deduplication key besides the hyperparameters
DedupKey(g, r) ==
    IF g \in has_activation_fn
    THEN <<r.hp, r.activation_fn, r.epoch>>
    ELSE <<r.hp, r.epoch>>

\* drop_duplicates(key, keep="first")
DropDuplicatesFirst(g, d) ==
    LET idx == {i \in DOMAIN d :
                   \A j \in DOMAIN d : j < i => DedupKey(g, d[j]) # DedupKey(g, d[i])}
        pos == SortedSeq(idx)
    IN  [k \in DOMAIN pos |-> d[pos[k]]]

\* Line 330: drop_duplicates(key, keep="last")
DropDuplicatesLast(g, d) ==
    LET idx == {i \in DOMAIN d :
                   \A j \in DOMAIN d : j > i => DedupKey(g, d[j]) # DedupKey(g, d[i])}
        pos == SortedSeq(idx)
    IN  [k \in DOMAIN pos |-> d[pos[k]]]

AllColumns == {"dataset", "model", "batch_size", "activation_fn", "matched", "phase"}

-----------------------------------------------------------------------------
(* The loop body as a state machine                                        *)

InitR ==
    /\ fname \in ReshapeGroups
    /\ process_tabular \in BOOLEAN
    /\ \/ group \in GroupInputs(fname)
       \/ /\ fname = Group("imagenet", "resnet", 512)
          /\ ~process_tabular
          /\ group \in WideInputs
       \/ /\ fname \in {Group("imagenet", "resnet", 512),
                        Group("cifar100", "wide_resnet", 2048)}
          /\ ~process_tabular
          /\ group \in QuadInputs(fname)
    /\ dataset = <<>>
    /\ columns = AllColumns
    /\ written = [written |-> FALSE, kind |-> "", columns |-> {}, rows |-> <<>>]
    /\ excR = ""
    /\ groupsLeft = MaxLeft
    /\ pcR = "explode"

\* Lines 200-236: convert the steps, accumulate the cost, explode, drop the
\* rows without a cost
ExplodeGroup ==
    /\ pcR = "explode"
    /\ dataset' = DropNanCost(Explode(Accumulated(
                      EpochConverted(fname, process_tabular, group))))
    /\ pcR' = "filter"
    /\ UNCHANGED <<groupsLeft, fname, process_tabular, group, columns, written, excR>>

\* Lines 238-287
FilterGroup ==
    /\ pcR = "filter"
    /\ LET r == SpecialFilter(fname, process_tabular, dataset)
       IN  /\ dataset' = r.rows
           /\ excR' = r.exc
           /\ pcR' = IF r.exc = "" THEN "write" ELSE "raised"
    /\ UNCHANGED <<groupsLeft, fname, process_tabular, group, columns, written>>

\* Line 347 on the file written at line 320: the rows get a RangeIndex; the
\* metric column of the re-indexer is the cost column here.
ReadCsv(rows) ==
    [i \in DOMAIN rows |->
        [idx |-> i - 1, hp |-> rows[i].hp, epoch |-> rows[i].epoch,
         metric |-> rows[i].train_cost]]

\* Lines 294-322: tabular mode; the call of line 321 starts the re-indexer
WriteTabular ==
    /\ pcR = "write"
    /\ process_tabular
    /\ columns' = (columns \ DroppedColumns(fname, process_tabular)) \ {"matched", "phase"}
    /\ dataset' = TabularMask(fname, dataset)
    /\ written' = [written |-> TRUE, kind |-> "tabular", columns |-> columns',
                   rows |-> dataset']
    /\ pcR' = "reindex"
    /\ path' = fname
    /\ csv' = ReadCsv(dataset')
    /\ pcT' = "read"
    /\ UNCHANGED <<groupsLeft, fname, process_tabular, group, excR>>
    /\ UNCHANGED <<df, unique_df, df_backup, nLast, nIds, jump, parquet, exc>>

\* Lines 294-307, 323-335: surrogate mode
WriteSurrogate ==
    /\ pcR = "write"
    /\ ~process_tabular
    /\ columns' = (columns \ DroppedColumns(fname, process_tabular)) \ {"matched", "phase"}
    /\ dataset' = DropDuplicatesLast(fname, dataset)
    /\ written' = [written |-> TRUE, kind |-> "surrogate", columns |-> columns',
                   rows |-> dataset']
    /\ pcR' = "done"
    /\ UNCHANGED <<groupsLeft, fname, process_tabular, group, excR>>

\* Line 321: nothing in process_pd1 or in the re-indexer catches an exception,
\* so one raised by the re-indexer ends process_pd1.
Propagate ==
    /\ pcR = "reindex"
    /\ pcT = "raised"
    /\ pcR' = "raised"
    /\ excR' = exc
    /\ UNCHANGED <<groupsLeft, fname, process_tabular, group, dataset, columns, written>>

\* The groups that follow the first one in the loop: one record of the
\* matched phase-1 pack
FollowInputs(g) ==
    { <<r>> : r \in { x \in SourceRows(g, {1}) :
                        x.pack = 2 /\ x.train_cost \in {List(<<1>>), List(<<2, 1>>)} } }

\* Line 196: the loop goes on to the next group when the pass over this one
\* has ended without an exception.
NextGroup ==
    /\ pcR = "done" \/ (pcR = "reindex" /\ pcT = "done")
    /\ groupsLeft > 0
    /\ groupsLeft' = groupsLeft - 1
    /\ fname' \in ReshapeGroups \ {fname}
    /\ group' \in FollowInputs(fname')
    /\ dataset' = <<>>
    /\ columns' = AllColumns
    /\ written' = [written |-> FALSE, kind |-> "", columns |-> {}, rows |-> <<>>]
    /\ pcR' = "explode"
    /\ UNCHANGED <<process_tabular, excR>>
    /\ path' = [dataset |-> "", model |-> "", batchsize |-> 0]
    /\ csv' = <<>>
    /\ df' = <<>>
    /\ unique_df' = <<>>
    /\ df_backup' = <<>>
    /\ nLast' = 0
    /\ nIds' = 0
    /\ jump' = 0
    /\ parquet' = [k \in {0} \cup Range(JumpSteps) |-> NotWritten]
    /\ exc' = ""
    /\ pcT' = "idle"

IdleR ==
    /\ fname = [dataset |-> "", model |-> "", batchsize |-> 0]
    /\ process_tabular = FALSE
    /\ group = <<>>
    /\ dataset = <<>>
    /\ columns = {}
    /\ written = [written |-> FALSE, kind |-> "", columns |-> {}, rows |-> <<>>]
    /\ excR = ""
    /\ groupsLeft = 0
    /\ pcR = "idle"

IdleU ==
    /\ tarball = [exists |-> FALSE, data |-> <<>>]
    /\ fulltable = FALSE
    /\ readme = FALSE
    /\ archive = <<>>
    /\ unpacked = <<>>
    /\ writes = <<>>
    /\ firstWrite = <<>>
    /\ dfs = <<>>
    /\ full_df = <<>>
    /\ packIdx = 0
    /\ outputs = FALSE
    /\ runs = 0
    /\ excU = ""
    /\ pcU = "idle"

NextR ==
    \/ ExplodeGroup /\ UNCHANGED <<varsT, varsU, varsQ, varsY, varsF, varsD>>
    \/ FilterGroup /\ UNCHANGED <<varsT, varsU, varsQ, varsY, varsF, varsD>>
    \/ WriteTabular /\ UNCHANGED <<varsU, varsQ, varsY, varsF, varsD>>
    \/ WriteSurrogate /\ UNCHANGED <<varsT, varsU, varsQ, varsY, varsF, varsD>>
    \/ Propagate /\ UNCHANGED <<varsT, varsU, varsQ, varsY, varsF, varsD>>
    \/ NextGroup /\ UNCHANGED <<varsU, varsQ, varsY, varsF, varsD>>

InitTabular == InitT /\ IdleR /\ IdleU /\ IdleQ /\ IdleY /\ IdleF /\ IdleD

SpecTabular == InitTabular /\ [][NextT]_vars

InitReshape == InitR /\ IdleT /\ IdleU /\ IdleQ /\ IdleY /\ IdleF /\ IdleD

NextReshape == NextR \/ NextT

SpecReshape == InitReshape /\ [][NextReshape]_vars

-----------------------------------------------------------------------------
(* Claims about the per-group reshaper                                     *)

SurrogateWritten == written.written /\ written.kind = "surrogate"

\* The table before the special-case filter, recomputed from the group
Exploded ==
    DropNanCost(Explode(Accumulated(EpochConverted(fname, process_tabular, group))))

\* C1 (as stated): the surrogate table of every group, the max_pooling_cnn
\* groups included, has no two rows with the same hyperparameters and epoch.
C1_NoDuplicateHpEpoch ==
    SurrogateWritten =>
        \A i, j \in DOMAIN written.rows :
            (/\ written.rows[i].hp = written.rows[j].hp
             /\ written.rows[i].epoch = written.rows[j].epoch) => i = j

\* C1 (amended): the surrogate table has no two rows with the same
\* hyperparameters and epoch, except in the four max_pooling_cnn groups, where
\* it has no two rows with the same hyperparameters, activation_fn and epoch.
C1_NoDuplicateKey ==
    SurrogateWritten =>
        \A i, j \in DOMAIN written.rows :
            (/\ written.rows[i].hp = written.rows[j].hp
             /\ written.rows[i].epoch = written.rows[j].epoch
             /\ (fname \in has_activation_fn =>
                    written.rows[i].activation_fn = written.rows[j].activation_fn))
            => i = j

\* The surrogate table of a max_pooling_cnn group was written, and duplicates
\* of its key were dropped from it.
C1_Witness ==
    /\ SurrogateWritten
    /\ fname \in has_activation_fn
    /\ Len(written.rows) < Len(Exploded)

\* C7 (as stated): in a written table the costs of the rows of one
\* configuration do not decrease with the step, also when the rows come from
\* several source records.
C7_CostMonotoneInConfig ==
    written.written =>
        \A i, j \in DOMAIN written.rows :
            (/\ written.rows[i].hp = written.rows[j].hp
             /\ written.rows[i].epoch < written.rows[j].epoch)
            => written.rows[i].train_cost <= written.rows[j].train_cost

\* C7 (amended): in a written table the costs of the rows that come from one
\* source record do not decrease with the list position, and these rows are
\* written in the order of their list positions.
C7_CostMonotoneInRecord ==
    written.written =>
        \A i, j \in DOMAIN written.rows :
            (/\ written.rows[i].rec = written.rows[j].rec
             /\ written.rows[i].pos < written.rows[j].pos)
            => /\ written.rows[i].train_cost <= written.rows[j].train_cost
               /\ i < j

\* A written table with two rows of one source record, and with rows of one
\* configuration that come from two source records.
C7_Witness ==
    /\ written.written
    /\ \E i, j \in DOMAIN written.rows :
          /\ written.rows[i].rec = written.rows[j].rec
          /\ written.rows[i].pos < written.rows[j].pos
          /\ written.rows[i].train_cost < written.rows[j].train_cost
    /\ \E i, j \in DOMAIN written.rows :
          /\ written.rows[i].rec # written.rows[j].rec
          /\ written.rows[i].hp = written.rows[j].hp

QuantileGroups == {Group("imagenet", "resnet", 512), Group("cifar100", "wide_resnet", 2048)}

\* The hyperparameter groups of the table before the filter whose maximum cost
\* is above the quantile.
AboveQuantile ==
    LET keys  == GroupKeys(Exploded)
        maxes == [k \in DOMAIN keys |-> MaxCost(GroupRows(Exploded, keys[k]))]
        q     == IF fname.dataset = "imagenet" THEN Q95 ELSE Q93
    IN  {h \in Range(keys) :
            100 * MaxCost(GroupRows(Exploded, h)) > Quantile100(maxes, q)}

\* C8: with n >= 2 hyperparameter groups of which exactly one has a maximum
\* cost above the quantile, the quantile filter removes all rows of exactly
\* that group and keeps every row of every other group.
C8_QuantileRemovesExactlyOutlier ==
    (/\ pcR \in {"write", "raised"}
     /\ fname \in QuantileGroups
     /\ ~process_tabular
     /\ Len(GroupKeys(Exploded)) >= 2
     /\ Cardinality(AboveQuantile) = 1)
    => /\ excR = ""
       /\ \A i \in DOMAIN Exploded :
             (Exploded[i].hp \notin AboveQuantile)
                 <=> (\E j \in DOMAIN dataset : dataset[j] = Exploded[i])
       /\ \A j \in DOMAIN dataset : \E i \in DOMAIN Exploded : dataset[j] = Exploded[i]

\* The position of a row's pack in the order of the assembled table
SourceRank(r) == (IF r.matched THEN 0 ELSE 2) + r.phase

\* The rows of the group that reach the deduplication
BeforeDedup == SpecialFilter(fname, FALSE, Exploded).rows

\* C12: of the rows of a surrogate group that share the deduplication key
\* (hyperparameters, activation_fn in the max_pooling_cnn groups, epoch) the
\* one written is the last in assembled-table order, which is a row of the
\* latest pack among them; so also after the quantile filter has regrouped
\* the rows by hyperparameters.
C12_LastDuplicateKept ==
    SurrogateWritten =>
        \A i \in DOMAIN BeforeDedup :
            LET r == BeforeDedup[i]
            IN  \E j \in DOMAIN written.rows :
                    LET w == written.rows[j]
                    IN  /\ w.hp = r.hp /\ w.epoch = r.epoch
                        /\ fname \in has_activation_fn => w.activation_fn = r.activation_fn
                        /\ r.rec < w.rec \/ (r.rec = w.rec /\ r.pos <= w.pos)
                        /\ SourceRank(r) <= SourceRank(w)
                        /\ \E k \in DOMAIN BeforeDedup : BeforeDedup[k] = w

\* Behind the quantile filter, which put a later record before an earlier one,
\* a duplicate from an earlier pack was dropped.
C12_Witness ==
    /\ SurrogateWritten
    /\ fname \in QuantileGroups
    /\ Len(written.rows) < Len(BeforeDedup)
    /\ \E i, j \in DOMAIN BeforeDedup :
          /\ i < j
          /\ BeforeDedup[i].rec > BeforeDedup[j].rec
    /\ \E i \in DOMAIN BeforeDedup : \E j \in DOMAIN written.rows :
          /\ BeforeDedup[i].hp = written.rows[j].hp
          /\ BeforeDedup[i].epoch = written.rows[j].epoch
          /\ SourceRank(BeforeDedup[i]) < SourceRank(written.rows[j])

TabularWritten == written.written /\ written.kind = "tabular"

\* C13: the tabular csv of a group holds exactly the rows of the group, after
\* explosion and removal of the rows without a cost, that have matched = true
\* and phase = 1, for imagenet-resnet-1024 those with matched = false and
\* phase = 0; it has no matched and no phase column.
C13_TabularRowsAreMasked ==
    TabularWritten =>
        LET InTabular(r) ==
                IF fname = Group("imagenet", "resnet", 1024)
                THEN r.matched = FALSE /\ r.phase = 0
                ELSE r.matched = TRUE /\ r.phase = 1
        IN  /\ written.rows = SelectSeq(Exploded, InTabular)
            /\ written.columns \cap {"matched", "phase"} = {}

\* The tabular csv of imagenet-resnet-1024 was written with some rows of the
\* group and without others.
C13_Witness ==
    /\ TabularWritten
    /\ fname = Group("imagenet", "resnet", 1024)
    /\ written.rows # <<>>
    /\ Len(written.rows) < Len(Exploded)

\* The groups with a special-case cost filter
FilteredGroups ==
    { Group("lm1b", "transformer", 2048), Group("uniref50", "transformer", 128),
      Group("imagenet", "resnet", 512), Group("cifar100", "wide_resnet", 2048) }

\* What the filter of group fname leaves of a table: costs below the literal
\* threshold, or rows of hyperparameter groups whose maximum cost is below the
\* quantile of the maxima of the group's table.
WithinFilter(rows) ==
    LET keys  == GroupKeys(Exploded)
        maxes == [k \in DOMAIN keys |-> MaxCost(GroupRows(Exploded, keys[k]))]
    IN  \A i \in DOMAIN rows :
            IF fname = Group("lm1b", "transformer", 2048)
            THEN rows[i].train_cost < 10000
            ELSE IF fname = Group("uniref50", "transformer", 128)
            THEN rows[i].train_cost < 4000
            ELSE 100 * MaxCost(GroupRows(Exploded, rows[i].hp))
                    < Quantile100(maxes, IF fname.dataset = "imagenet" THEN 95 ELSE 93)

\* C14 (as stated): the special-case cost filter of a group constrains the
\* rows of its tabular output as well as those of its surrogate output.
C14_FilterInBothModes ==
    (written.written /\ fname \in FilteredGroups) => WithinFilter(written.rows)

\* C14 (amended): the special-case cost filter of a group constrains the rows
\* of its surrogate output; in tabular mode no filter is applied, the table
\* that reaches the branch on the mode is the exploded group without its
\* rows of undefined cost.
C14_FilterInSurrogateOnly ==
    /\ (SurrogateWritten /\ fname \in FilteredGroups) => WithinFilter(written.rows)
    /\ (pcR = "write" /\ process_tabular) => dataset = Exploded

\* The surrogate table of lm1b-transformer-2048 was written without a row
\* whose cost is not below the threshold.
C14_Witness ==
    /\ SurrogateWritten
    /\ fname = Group("lm1b", "transformer", 2048)
    /\ written.rows # <<>>
    /\ \E i \in DOMAIN Exploded : Exploded[i].train_cost >= 10000

Emptied ==
    LET InTabular(r) ==
            IF fname = Group("imagenet", "resnet", 1024)
            THEN ~r.matched /\ r.phase = 0
            ELSE r.matched /\ r.phase = 1
        limit == IF fname = Group("lm1b", "transformer", 2048) THEN 10000 ELSE 4000
    IN  IF process_tabular
        THEN SelectSeq(Exploded, InTabular) = <<>>
        ELSE \/ Exploded = <<>>
             \/ /\ fname \in {Group("lm1b", "transformer", 2048),
                              Group("uniref50", "transformer", 128)}
                /\ \A i \in DOMAIN Exploded : Exploded[i].train_cost >= limit

\* The pass of the loop over this group has ended: the surrogate table is
\* written, the re-indexer has returned, or an exception was raised.
GroupEnded == pcR \in {"done", "raised"} \/ (pcR = "reindex" /\ pcT \in {"done", "raised"})

\* C16: a group all of whose rows are removed by filtering gets an empty
\* written table, and its pass of the loop ends without an exception, in
\* surrogate mode and in tabular mode.
C16_EmptyGroupNoError ==
    (Emptied /\ GroupEnded) =>
        /\ written.written
        /\ written.rows = <<>>
        /\ excR = ""
        /\ exc = ""

\* C17: an exception of the re-indexer is caught in the re-indexing step; it
\* does not end process_pd1, which goes on with the remaining groups.
C17_ReindexFailureCaught ==
    pcR = "raised" => exc = ""

\* The scalar fields of a written row are those of the tagged source row it
\* derives from.
ScalarFieldsKept(w) ==
    LET src == group[w.rec]
    IN  /\ w.hp = src.hp
        /\ w.activation_fn = src.activation_fn
        /\ w.matched = (src.pack \in {1, 2})
        /\ w.phase = (IF src.pack \in {1, 3} THEN 0 ELSE 1)

\* C18 (as stated): every field of a written row has the value of the tagged
\* source row it derives from, for a list field the element at the row's
\* list position.
C18_RowsNeverMutated ==
    written.written =>
        \A j \in DOMAIN written.rows :
            LET w   == written.rows[j]
                src == group[w.rec]
            IN  /\ ScalarFieldsKept(w)
                /\ w.epoch = src.epoch.items[w.pos]
                /\ w.train_cost = src.train_cost.items[w.pos]

\* C18 (amended): the hyperparameters, activation_fn, matched and phase of a
\* written row are those of its source row; its epoch is the element of the
\* source list at its position, for uniref50 in surrogate mode the position
\* itself; its train_cost is the sum of the elements of the source list up to
\* its position, all of which are defined.
C18_OnlyCostAndEpochDerived ==
    written.written =>
        \A j \in DOMAIN written.rows :
            LET w   == written.rows[j]
                src == group[w.rec]
                c   == src.train_cost.items
            IN  /\ ScalarFieldsKept(w)
                /\ w.epoch = IF fname.dataset = "uniref50" /\ ~process_tabular
                              THEN w.pos ELSE src.epoch.items[w.pos]
                /\ \A i \in 1..w.pos : c[i] # NaN
                /\ w.train_cost = SumTo(c, w.pos)

\* A written row at the second position of its source list, with a cost that
\* is not the element of the list at that position.
C18_Witness ==
    /\ written.written
    /\ \E j \in DOMAIN written.rows :
          /\ written.rows[j].pos = 2
          /\ written.rows[j].train_cost
                # group[written.rows[j].rec].train_cost.items[2]

-----------------------------------------------------------------------------
(* Datapack._unpack and the archive loop of process_pd1                    *)

MaxRuns == 2        \* runs of process_pd1 on the same data directory
MaxProcs == 2       \* processes that construct YAHPO benchmarks
MaxUuids == 2       \* values uuid.uuid4() can return
MaxBuilt == 2       \* YAHPO benchmarks one process constructs
MaxAdds == 3        \* results added to one ResultFrame
MaxDownloads == 3   \* runs of the download script on one data directory

Absent == [exists |-> FALSE, data |-> <<>>]

FileOf(d) == [exists |-> TRUE, data |-> d]

\* The lines of a .jsonl.gz archive: one raw record per line, here its cost
\* cell (a list with numbers and nulls, or missing).
JsonlA == <<List(<<1, NaN>>), ScalarNaN>>
JsonlB == <<List(<<2>>)>>
JsonlOfTarball == <<List(<<1>>), List(<<NaN>>)>>

PackIds == DOMAIN Packs

\* The archives a data directory may hold at the start
ArchiveStates ==
    { [p \in PackIds |->
          IF p \in present THEN FileOf(IF p % 2 = 1 THEN JsonlA ELSE JsonlB) ELSE Absent] :
        present \in SUBSET PackIds }

\* data.tar.gz: absent, holding the four archives, or lacking the last one
TarballStates ==
    { Absent,
      FileOf([p \in PackIds |-> FileOf(JsonlOfTarball)]),
      FileOf([p \in PackIds |-> IF p = 4 THEN Absent ELSE FileOf(JsonlOfTarball)]) }

\* DataFrame.to_csv of a cell: a list is written as its str(), a missing
\* value as the empty field.
ToCsvCell(c) ==
    IF c.scalar THEN [field |-> "empty", toks |-> <<>>]
    ELSE [field |-> "str",
          toks |-> [i \in DOMAIN c.items |->
                       IF c.items[i] = NaN THEN <<"None">> ELSE <<"num", c.items[i]>>]]

\* Lines 88-91
ToCsv(table) == [i \in DOMAIN table |-> ToCsvCell(table[i])]

\* Lines 105-111: json.loads(val.replace("None", "null")) if val is a str
FromCsvCell(t) ==
    IF t.field = "empty" THEN ScalarNaN
    ELSE List([i \in DOMAIN t.toks |->
                 LET tok == IF t.toks[i] = <<"None">> THEN <<"null">> ELSE t.toks[i]
                 IN  IF tok = <<"null">> THEN NaN ELSE tok[2]])

\* Lines 94-111
FromCsv(text) == [i \in DOMAIN text |-> FromCsvCell(text[i])]

\* A cache that is never found
CacheNeverExists(p) == FALSE

\* Line 81: self.unpacked_path.exists()
CacheExists(p) == unpacked[p].exists

\* Line 78: frm.exists()
ArchiveExists(p) == archive[p].exists

\* An _unpack that looks for the cache before it looks for the archive
UnpackCacheFirst(p) ==
    IF unpacked[p].exists
    THEN [exc |-> "", write |-> FALSE, table |-> FromCsv(unpacked[p].data)]
    ELSE IF ~archive[p].exists
    THEN [exc |-> "FileNotFoundError: archive", write |-> FALSE, table |-> <<>>]
    ELSE [exc |-> "", write |-> TRUE, table |-> archive[p].data]

\* Lines 75-115: what _unpack of pack p does: the exception it raises, whether
\* it writes the cache, and the table it returns.
UnpackResult(p) ==
    IF ~ArchiveExists(p)
    THEN [exc |-> "FileNotFoundError: archive", write |-> FALSE, table |-> <<>>]
    ELSE IF ~CacheExists(p)
    THEN [exc |-> "", write |-> TRUE, table |-> archive[p].data]
    ELSE [exc |-> "", write |-> FALSE, table |-> FromCsv(unpacked[p].data)]

\* Lines 175-176: every row of an unpacked table gets the tags of its pack
Tagged(d) ==
    [i \in DOMAIN d.rows |->
        [matched |-> d.matched, phase |-> d.phase, train_cost |-> d.rows[i]]]

\* The tables put together last table first
ConcatReversed(ds) ==
    ConcatAll([k \in DOMAIN ds |-> Tagged(ds[Len(ds) + 1 - k])])

\* Line 184: pd.concat(dfs, ignore_index=True)
ConcatDfs(ds) == ConcatAll([k \in DOMAIN ds |-> Tagged(ds[k])])

InitU ==
    /\ tarball \in TarballStates
    /\ fulltable \in BOOLEAN
    /\ readme \in BOOLEAN
    /\ archive \in ArchiveStates
    /\ unpacked = [p \in PackIds |-> Absent]
    /\ writes = [p \in PackIds |-> 0]
    /\ firstWrite = [p \in PackIds |-> <<>>]
    /\ dfs = <<>>
    /\ full_df = <<>>
    /\ packIdx = 0
    /\ outputs = FALSE
    /\ runs = 0
    /\ excU = ""
    /\ pcU = "idle"

Stopped == pcU \in {"idle", "done", "raised"}

\* The script is started (line 472).
StartRun ==
    /\ Stopped
    /\ runs < MaxRuns
    /\ runs' = runs + 1
    /\ pcU' = "extract"
    /\ dfs' = <<>>
    /\ full_df' = <<>>
    /\ packIdx' = 0
    /\ outputs' = FALSE
    /\ excU' = ""
    /\ UNCHANGED <<tarball, fulltable, readme, archive, unpacked, writes, firstWrite>>

\* Lines 140-160: without full.csv the tarball must exist, and without the
\* README it is unpacked into raw/, over the files that are there.
Extract ==
    /\ pcU = "extract"
    /\ IF fulltable
       THEN /\ pcU' = "unpack"
            /\ packIdx' = 1
            /\ UNCHANGED <<readme, archive, excU>>
       ELSE IF ~tarball.exists
       THEN /\ pcU' = "raised"
            /\ excU' = "FileNotFoundError: tarball"
            /\ UNCHANGED <<readme, archive, packIdx>>
       ELSE /\ pcU' = "unpack"
            /\ packIdx' = 1
            /\ readme' = TRUE
            /\ archive' = IF readme THEN archive
                          ELSE [p \in PackIds |->
                                   IF tarball.data[p].exists THEN tarball.data[p]
                                   ELSE archive[p]]
            /\ excU' = excU
    /\ UNCHANGED <<tarball, fulltable, unpacked, writes, firstWrite, dfs, full_df,
                   outputs, runs>>

\* Lines 169-181: one pass of the loop over the packs
Unpack ==
    /\ pcU = "unpack"
    /\ LET r == UnpackResult(packIdx)
       IN  IF r.exc # ""
           THEN /\ excU' = r.exc
                /\ pcU' = "raised"
                /\ UNCHANGED <<unpacked, writes, firstWrite, dfs, packIdx>>
           ELSE /\ unpacked' = IF r.write
                               THEN [unpacked EXCEPT ![packIdx] = FileOf(ToCsv(r.table))]
                               ELSE unpacked
                /\ writes' = IF r.write THEN [writes EXCEPT ![packIdx] = @ + 1] ELSE writes
                /\ firstWrite' = IF r.write /\ writes[packIdx] = 0
                                 THEN [firstWrite EXCEPT ![packIdx] = ToCsv(r.table)]
                                 ELSE firstWrite
                /\ dfs' = Append(dfs, [matched |-> Packs[packIdx].matched,
                                       phase |-> Packs[packIdx].phase,
                                       rows |-> r.table])
                /\ packIdx' = packIdx + 1
                /\ pcU' = IF packIdx = Len(Packs) THEN "groups" ELSE "unpack"
                /\ excU' = excU
    /\ UNCHANGED <<tarball, fulltable, readme, archive, full_df, outputs, runs>>

\* Lines 184-335: the assembled table is grouped and every group written
\* (the loop body is the reshaper above).
ProcessGroups ==
    /\ pcU = "groups"
    /\ full_df' = ConcatDfs(dfs)
    /\ outputs' = TRUE
    /\ pcU' = "done"
    /\ UNCHANGED <<tarball, fulltable, readme, archive, unpacked, writes, firstWrite,
                   dfs, packIdx, runs, excU>>

\* Between two runs an archive is removed from raw/.
RemoveArchive(p) ==
    /\ Stopped
    /\ archive[p].exists
    /\ archive' = [archive EXCEPT ![p] = Absent]
    /\ UNCHANGED <<tarball, fulltable, readme, unpacked, writes, firstWrite, dfs,
                   full_df, packIdx, outputs, runs, excU, pcU>>

NextU ==
    \/ StartRun /\ UNCHANGED <<varsT, varsR, varsQ, varsY, varsF, varsD>>
    \/ Extract /\ UNCHANGED <<varsT, varsR, varsQ, varsY, varsF, varsD>>
    \/ Unpack /\ UNCHANGED <<varsT, varsR, varsQ, varsY, varsF, varsD>>
    \/ ProcessGroups /\ UNCHANGED <<varsT, varsR, varsQ, varsY, varsF, varsD>>
    \/ \E p \in PackIds : RemoveArchive(p) /\ UNCHANGED <<varsT, varsR, varsQ, varsY, varsF, varsD>>

InitUnpack == InitU /\ IdleT /\ IdleR /\ IdleQ /\ IdleY /\ IdleF /\ IdleD

SpecUnpack == InitUnpack /\ [][NextU]_vars

-----------------------------------------------------------------------------
(* Claims about the unpacking                                              *)

\* C9: once <rawname>_unpacked.csv exists, no run writes it again: every cache
\* file is written at most once and holds what its first write wrote.
C9_CacheWrittenOnce ==
    \A p \in PackIds :
        /\ writes[p] <= 1
        /\ unpacked[p].exists => unpacked[p].data = firstWrite[p]

\* A later run has unpacked pack 1 again, with its cache in place.
C9_Witness ==
    /\ runs = 2
    /\ pcU = "unpack"
    /\ packIdx > 1
    /\ writes[1] = 1

\* C10: _unpack raises FileNotFoundError whenever the archive of its pack is
\* absent, also when the unpacked cache exists; it then writes no cache file,
\* and the run ends without having written a surrogate or tabular file.
C10_MissingArchiveRaises ==
    /\ [][(pcU = "unpack" /\ ~archive[packIdx].exists) =>
            (/\ pcU' = "raised"
             /\ excU' = "FileNotFoundError: archive"
             /\ unpacked' = unpacked
             /\ outputs' = outputs)]_vars
    /\ []((pcU = "raised" /\ excU = "FileNotFoundError: archive") => ~outputs)

\* The archive of a pack whose cache exists was missing, and the run raised.
C10_Witness ==
    /\ pcU = "raised"
    /\ excU = "FileNotFoundError: archive"
    /\ unpacked[packIdx].exists
    /\ ~archive[packIdx].exists

\* The rows of the unpacked table of pack p, as its csv file holds them, with
\* the tags m and ph
UnpackedRows(p, m, ph) ==
    LET t == FromCsv(unpacked[p].data)
    IN  [i \in DOMAIN t |-> [matched |-> m, phase |-> ph, train_cost |-> t[i]]]

\* C11: the assembled table is the four unpacked tables one after the other
\* in the order (matched, 0), (matched, 1), (unmatched, 0), (unmatched, 1),
\* each with its rows in their order, every row with the tags of its archive.
C11_AssembledInPackOrder ==
    pcU = "done" =>
        full_df = UnpackedRows(1, TRUE, 0) \o UnpackedRows(2, TRUE, 1)
                    \o UnpackedRows(3, FALSE, 0) \o UnpackedRows(4, FALSE, 1)

\* A run that read its four tables from the caches has assembled them.
C11_Witness ==
    /\ pcU = "done"
    /\ runs = 2
    /\ \A p \in PackIds : writes[p] = 1 /\ Len(unpacked[p].data) >= 1
    /\ unpacked[1].data # unpacked[2].data

-----------------------------------------------------------------------------
(***************************************************************************)
(* query and trajectory of the benchmarks                                  *)
(* (mfpbench/yahpo/benchmark.py, mfpbench/jahs/benchmark.py,               *)
(* mfpbench/synthetic/hartmann/benchmark.py).                              *)
(*                                                                         *)
(* A benchmark is a record [name, fidelity_range]; fidelity_range is       *)
(* <<start, end, step>>. A config is a record [kind, hp]: kind tells a     *)
(* Config object from a dict and from a ConfigSpace Configuration, hp      *)
(* stands for its hyperparameter values. A missing argument is None.       *)
(***************************************************************************)

\* None, the default of at, frm, to and step
None == NaN

\* fidelity_range of JAHSBenchmark
JAHS_fidelity_range == <<3, 200, 1>>

\* fidelity_range of MFHartmannBenchmark
MFHartmann_fidelity_range == <<3, 100, 1>>

\* fidelity_range of a YAHPO benchmark: each concrete benchmark sets its own;
\* this one is a range of epochs.
YAHPO_fidelity_range == <<1, 52, 1>>

Benchmarks ==
    { [name |-> "YAHPO", fidelity_range |-> YAHPO_fidelity_range],
      [name |-> "JAHS", fidelity_range |-> JAHS_fidelity_range],
      [name |-> "MFHartmann", fidelity_range |-> MFHartmann_fidelity_range] }

\* Benchmark.start, Benchmark.end, Benchmark.step of a benchmark with
\* fidelity_range r
start(r) == r[1]

end(r) == r[2]

step(r) == r[3]

\* Benchmark.iter_fidelities(frm, to, step) of a benchmark with
\* fidelity_range r: the arguments default to start, end, step; the bounds
\* are asserted; the fidelities are frm, frm + step, ... up to to.
iter_fidelities(r, frm, to, stp) ==
    LET f == IF frm # None THEN frm ELSE start(r)
        t == IF to # None THEN to ELSE end(r)
        s == IF stp # None THEN stp ELSE step(r)
    IN  IF start(r) <= f /\ f <= t /\ t <= end(r)
        THEN [raised |-> FALSE,
              items |-> [i \in 1..((t - f) \div s + 1) |-> f + (i - 1) * s]]
        ELSE [raised |-> TRUE, items |-> <<>>]

\* Config.from_dict: the Config object with the values of a dict or of a
\* Configuration
Config_from_dict(config) == [kind |-> "Config", hp |-> config.hp]

\* if isinstance(config, (Configuration, dict)):
\*     config = self.Config.from_dict(config)
AsConfig(config) ==
    IF config.kind \in {"Configuration", "dict"}
    THEN Config_from_dict(config)
    ELSE config

\* YAHPOResult.from_dict and JAHSResult.from_dict, as far as config and
\* fidelity go
Result_from_dict(config, fidelity) ==
    [config |-> config, fidelity |-> fidelity]

\* A result that has lost the fidelity it was made at
MFHartmannResult_without_z(config, fidelity) ==
    [config |-> config, z |-> None]

\* MFHartmannResult.from_dict: the fidelity is stored as z
MFHartmannResult_from_dict(config, fidelity) ==
    [config |-> config, z |-> fidelity]

\* Result.fidelity; MFHartmannResult.fidelity returns z
FidelityOf(result) ==
    IF "z" \in DOMAIN result THEN result.z ELSE result.fidelity

\* One call of query(config, at) or of trajectory(config, frm=, to=, step=).
\* The config is a Config, a dict or a Configuration; at, frm and to lie
\* around the ends of the fidelity range, or are left out.
InitQ ==
    /\ \E b \in Benchmarks,
          c \in [kind : {"Config", "dict", "Configuration"}, hp : 1..2] :
         LET r == b.fidelity_range
         IN  \/ \E a \in {None, start(r) - 1, start(r), start(r) + 1,
                           end(r), end(r) + 1} :
                  call = [bench |-> b, method |-> "query", config |-> c,
                          at |-> a, frm |-> None, to |-> None, step |-> None]
             \/ \E f \in {None, start(r) - 1, start(r) + 2},
                   t \in {None, start(r), start(r) + 5, end(r) + 1},
                   s \in {None, 1, 2} :
                  call = [bench |-> b, method |-> "trajectory", config |-> c,
                          at |-> None, frm |-> f, to |-> t, step |-> s]
    /\ backendCalls = <<>>
    /\ results = <<>>
    /\ excQ = ""
    /\ pcQ = "ready"

\* The call ends in the exception e after the backend calls made so far
Raise(e, calls) ==
    /\ backendCalls' = calls
    /\ results' = <<>>
    /\ excQ' = e
    /\ pcQ' = "raised"
    /\ UNCHANGED call

\* The call returns rs after the backend calls made
Return(rs, calls) ==
    /\ backendCalls' = calls
    /\ results' = rs
    /\ excQ' = ""
    /\ pcQ' = "returned"
    /\ UNCHANGED call

\* YAHPOBenchmark.query
YAHPO_query ==
    /\ pcQ = "ready"
    /\ call.bench.name = "YAHPO"
    /\ call.method = "query"
    /\ LET r == call.bench.fidelity_range
           at == IF call.at # None THEN call.at ELSE end(r)
           config == AsConfig(call.config)
       IN  IF ~(start(r) <= at /\ at <= end(r))
           THEN Raise("AssertionError", <<>>)
           ELSE Return(<<Result_from_dict(config, at)>>,
                       <<[fn |-> "objective_function", at |-> <<at>>]>>)

\* YAHPOBenchmark.trajectory
YAHPO_trajectory ==
    /\ pcQ = "ready"
    /\ call.bench.name = "YAHPO"
    /\ call.method = "trajectory"
    /\ LET r == call.bench.fidelity_range
           config == AsConfig(call.config)
           fs == iter_fidelities(r, call.frm, call.to, call.step)
           queries == fs.items
       IN  IF fs.raised
           THEN Raise("AssertionError", <<>>)
           ELSE Return([i \in DOMAIN queries |->
                            Result_from_dict(config, queries[i])],
                       <<[fn |-> "objective_function", at |-> queries]>>)

\* JAHSBenchmark.query
JAHS_query ==
    /\ pcQ = "ready"
    /\ call.bench.name = "JAHS"
    /\ call.method = "query"
    /\ LET r == call.bench.fidelity_range
           at == IF call.at # None THEN call.at ELSE end(r)
           config == AsConfig(call.config)
       IN  IF ~(start(r) <= at /\ at <= end(r))
           THEN Raise("AssertionError", <<>>)
           ELSE Return(<<Result_from_dict(config, at)>>,
                       <<[fn |-> "__call__", at |-> <<at>>]>>)

\* JAHSBenchmark.trajectory. The backend either takes full_trajectory=True
\* and answers with every epoch up to nepochs, or raises TypeError on it and
\* is then called once per fidelity.
JAHS_trajectory ==
    /\ pcQ = "ready"
    /\ call.bench.name = "JAHS"
    /\ call.method = "trajectory"
    /\ LET r == call.bench.fidelity_range
           to == IF call.to # None THEN call.to ELSE end(r)
           config == AsConfig(call.config)
           full == <<[fn |-> "__call__", at |-> <<to>>]>>
           fs == iter_fidelities(r, call.frm, to, call.step)
           each == [i \in DOMAIN fs.items |->
                        [fn |-> "__call__", at |-> <<fs.items[i]>>]]
       IN  \E TypeError \in BOOLEAN :
             LET calls == IF TypeError THEN full \o each ELSE full
             IN  IF fs.raised
                 THEN Raise("AssertionError", full)
                 ELSE Return([i \in DOMAIN fs.items |->
                                  Result_from_dict(config, fs.items[i])],
                             calls)

\* MFHartmannBenchmark.query
MFHartmann_query ==
    /\ pcQ = "ready"
    /\ call.bench.name = "MFHartmann"
    /\ call.method = "query"
    /\ LET r == call.bench.fidelity_range
           at == IF call.at # None THEN call.at ELSE end(r)
           config == AsConfig(call.config)
       IN  IF ~(start(r) <= at /\ at <= end(r))
           THEN Raise("AssertionError", <<>>)
           ELSE Return(<<MFHartmannResult_from_dict(config, at)>>,
                       <<[fn |-> "mfh", at |-> <<at>>]>>)

\* MFHartmannBenchmark.trajectory: the fidelities are those of
\* iter_fidelities() without arguments
MFHartmann_trajectory ==
    /\ pcQ = "ready"
    /\ call.bench.name = "MFHartmann"
    /\ call.method = "trajectory"
    /\ LET r == call.bench.fidelity_range
           config == AsConfig(call.config)
           fs == iter_fidelities(r, None, None, None)
           fidelities == fs.items
       IN  IF fs.raised
           THEN Raise("AssertionError", <<>>)
           ELSE Return([i \in DOMAIN fidelities |->
                            MFHartmannResult_from_dict(config, fidelities[i])],
                       [i \in DOMAIN fidelities |->
                            [fn |-> "mfh", at |-> <<fidelities[i]>>]])

NextQ ==
    \/ YAHPO_query /\ UNCHANGED <<varsT, varsR, varsU, varsY, varsF, varsD>>
    \/ YAHPO_trajectory /\ UNCHANGED <<varsT, varsR, varsU, varsY, varsF, varsD>>
    \/ JAHS_query /\ UNCHANGED <<varsT, varsR, varsU, varsY, varsF, varsD>>
    \/ JAHS_trajectory /\ UNCHANGED <<varsT, varsR, varsU, varsY, varsF, varsD>>
    \/ MFHartmann_query /\ UNCHANGED <<varsT, varsR, varsU, varsY, varsF, varsD>>
    \/ MFHartmann_trajectory /\ UNCHANGED <<varsT, varsR, varsU, varsY, varsF, varsD>>

InitQuery == InitQ /\ IdleT /\ IdleR /\ IdleU /\ IdleY /\ IdleF /\ IdleD

SpecQuery == InitQuery /\ [][NextQ]_vars

\* The fidelity a query is made at: at, or end when at is None
AskedAt == IF call.at # None THEN call.at ELSE end(call.bench.fidelity_range)

\* C19: for each backend, query(config, at) with start <= at <= end returns
\* one result whose fidelity is at and whose config has the values of the
\* queried config; with at = None the fidelity is end; with at outside
\* [start, end] the call ends in the AssertionError and the backend has not
\* been called.
C19_QueryAtFidelity ==
    (pcQ \in {"returned", "raised"} /\ call.method = "query") =>
        LET r == call.bench.fidelity_range
        IN  IF start(r) <= AskedAt /\ AskedAt <= end(r)
            THEN /\ pcQ = "returned"
                 /\ Len(results) = 1
                 /\ FidelityOf(results[1]) = AskedAt
                 /\ results[1].config.hp = call.config.hp
                 /\ results[1].config.kind = "Config"
                 /\ Len(backendCalls) = 1
                 /\ backendCalls[1].at = <<AskedAt>>
            ELSE /\ pcQ = "raised"
                 /\ excQ = "AssertionError"
                 /\ backendCalls = <<>>
                 /\ results = <<>>

\* A query without at on an MFHartmann benchmark, given a dict, has returned
\* its result at the maximum fidelity.
C19_Witness ==
    /\ pcQ = "returned"
    /\ call.method = "query"
    /\ call.bench.name = "MFHartmann"
    /\ call.at = None
    /\ call.config.kind = "dict"
    /\ FidelityOf(results[1]) = 100

\* The fidelities frm, frm + step, ... (at most to) that the arguments of the
\* trajectory call ask for, each defaulting to start, end, step
AskedFidelities ==
    LET r == call.bench.fidelity_range
        f == IF call.frm # None THEN call.frm ELSE start(r)
        t == IF call.to # None THEN call.to ELSE end(r)
        s == IF call.step # None THEN call.step ELSE step(r)
    IN  [i \in 1..((t - f) \div s + 1) |-> f + (i - 1) * s]

\* C20: for each backend, a trajectory call that returns gives exactly one
\* result per fidelity of frm, frm + step, ... (at most to), in increasing
\* order, each result with its own fidelity; frm, to, step left out default
\* to start, end, step.
C20_TrajectoryFollowsArguments ==
    (pcQ = "returned" /\ call.method = "trajectory") =>
        /\ Len(results) = Len(AskedFidelities)
        /\ \A i \in DOMAIN results :
             FidelityOf(results[i]) = AskedFidelities[i]

-----------------------------------------------------------------------------
(***************************************************************************)
(* The yahpo settings file of a process (mfpbench/yahpo/benchmark.py:      *)
(* _ensure_yahpo_config_set, YAHPOBenchmark.__init__).                     *)
(*                                                                         *)
(* A settings file is named by a record [uuid, pid]; the default one,      *)
(* ~/.config/yahpo_gym, is DefaultSettings. A file on disk is a record     *)
(* [path, data_path]. Processes run on one host, so their pids differ.     *)
(***************************************************************************)

Pids == 1..MaxProcs

Uuids == 1..MaxUuids

DataPaths == 1..2

\* The settings path yahpo_gym sets on import
DefaultSettings == [uuid |-> 0, pid |-> 0]

\* A file name that leaves the process out
ConfigForAnyProcess(uuid_str, pid) == [uuid |-> uuid_str, pid |-> 0]

\* config_for_this_process:
\* yahpo_dump_dir / f"config_{uuid_str}_{pid}.yaml"
ConfigForThisProcess(uuid_str, pid) == [uuid |-> uuid_str, pid |-> pid]

\* The module global _YAHPO_LOADED: set to False at import, assigned nowhere
YAHPO_LOADED == FALSE

\* local_config.init_config(data_path=...): writes the settings file anew
InitConfig(files, file, data_path) ==
    {f \in files : f.path # file} \cup {[path |-> file, data_path |-> data_path]}

InitY ==
    /\ settings_path = [p \in Pids |-> DefaultSettings]
    /\ yfiles = {}
    /\ accesses = {}
    /\ handed = [p \in Pids |-> {}]
    /\ pcY = [p \in Pids |-> "idle"]

\* YAHPOBenchmark.__init__ of process pid up to and including the call of
\* _ensure_yahpo_config_set(datadir). uuid4 returns a value it has not
\* returned to this process before; other processes may have got the same.
EnsureYahpoConfigSet(pid, datapath) ==
    /\ pcY[pid] = "idle"
    /\ Cardinality(handed[pid]) < MaxBuilt
    /\ pcY' = [pcY EXCEPT ![pid] = "ensured"]
    /\ IF YAHPO_LOADED
       THEN UNCHANGED <<settings_path, yfiles, accesses, handed>>
       ELSE \E uuid_str \in Uuids \ handed[pid] :
              LET config_for_this_process ==
                      ConfigForThisProcess(uuid_str, pid)
              IN  /\ handed' = [handed EXCEPT ![pid] = @ \cup {uuid_str}]
                  /\ settings_path' =
                         [settings_path EXCEPT ![pid] = config_for_this_process]
                  /\ yfiles' =
                         InitConfig(yfiles, config_for_this_process, datapath)
                  /\ accesses' = accesses \cup
                         {[path |-> config_for_this_process, pid |-> pid,
                           by |-> "init_config"]}

\* The rest of YAHPOBenchmark.__init__: yahpo_gym.BenchmarkSet(...) reads the
\* data path from the settings file of the process
BenchmarkSet(pid) ==
    /\ pcY[pid] = "ensured"
    /\ pcY' = [pcY EXCEPT ![pid] = "idle"]
    /\ accesses' = accesses \cup
           {[path |-> settings_path[pid], pid |-> pid, by |-> "BenchmarkSet"]}
    /\ UNCHANGED <<settings_path, yfiles, handed>>

\* Running a constructed benchmark reads the settings file of the process
\* again
ObjectiveFunction(pid) ==
    /\ pcY[pid] = "idle"
    /\ handed[pid] # {}
    /\ accesses' = accesses \cup
           {[path |-> settings_path[pid], pid |-> pid,
             by |-> "objective_function"]}
    /\ UNCHANGED <<settings_path, yfiles, handed, pcY>>

NextY ==
    \/ \E pid \in Pids, d \in DataPaths :
         EnsureYahpoConfigSet(pid, d) /\ UNCHANGED <<varsT, varsR, varsU, varsQ, varsF, varsD>>
    \/ \E pid \in Pids : BenchmarkSet(pid) /\ UNCHANGED <<varsT, varsR, varsU, varsQ, varsF, varsD>>
    \/ \E pid \in Pids :
         ObjectiveFunction(pid) /\ UNCHANGED <<varsT, varsR, varsU, varsQ, varsF, varsD>>

InitYahpo == InitY /\ IdleT /\ IdleR /\ IdleU /\ IdleQ /\ IdleF /\ IdleD

SpecYahpo == InitYahpo /\ [][NextY]_vars

C25_AtMostOneConfigFile ==
    \A p \in Pids : Cardinality({f \in yfiles : f.path.pid = p}) <= 1

-----------------------------------------------------------------------------
(***************************************************************************)
(* ResultFrame (mfpbench/resultframe.py).                                  *)
(*                                                                         *)
(* A result is a record [config, fidelity, error]. A key is a record       *)
(* [type, v]: type "int" for a fidelity, "Config" for a config, "str" for  *)
(* a key of any other type. The dicts _ctor and _ftor are functions whose  *)
(* domain is the set of their keys.                                        *)
(***************************************************************************)

FrameResults == [config : 1..2, fidelity : 1..2, error : 1..2]

FrameKeys == [type : {"int", "Config", "str"}, v : 1..2]

NoKey == [type |-> "none", v |-> 0]

\* d[k] = [r], whether or not k is in d
Replaced(d, k, r) == [x \in DOMAIN d \cup {k} |-> IF x = k THEN <<r>> ELSE d[x]]

\* d[k].append(r) if k in d, else d[k] = [r]
Appended(d, k, r) ==
    [x \in DOMAIN d \cup {k} |->
        IF x = k
        THEN (IF k \in DOMAIN d THEN Append(d[k], r) ELSE <<r>>)
        ELSE d[x]]

\* ResultFrame.__init__
InitF ==
    /\ ctor = [c \in {} |-> <<>>]
    /\ ftor = [f \in {} |-> <<>>]
    /\ result_order = <<>>
    /\ ret = [op |-> "init", key |-> NoKey, outcome |-> "", value |-> <<>>]

\* ResultFrame.add
add(result) ==
    /\ Len(result_order) < MaxAdds
    /\ LET f == result.fidelity
           c == result.config
       IN  /\ ctor' = Appended(ctor, c, result)
           /\ ftor' = Appended(ftor, f, result)
    /\ result_order' = Append(result_order, result)
    /\ ret' = [op |-> "add", key |-> NoKey, outcome |-> "", value |-> <<>>]

\* ResultFrame.__getitem__: what frame[key] does
GetItem(key) ==
    IF key.type = "int"
    THEN (IF key.v \in DOMAIN ftor
          THEN [outcome |-> "returned list", value |-> ftor[key.v]]
          ELSE [outcome |-> "raised KeyError", value |-> <<>>])
    ELSE IF key.type = "Config"
    THEN (IF key.v \in DOMAIN ctor
          THEN [outcome |-> "returned list", value |-> ctor[key.v]]
          ELSE [outcome |-> "raised KeyError", value |-> <<>>])
    ELSE [outcome |-> "returned KeyError", value |-> <<>>]

\* ResultFrame.__contains__: key in frame
Contains(key) ==
    IF key.type = "int" THEN key.v \in DOMAIN ftor
    ELSE IF key.type = "Config" THEN key.v \in DOMAIN ctor
    ELSE FALSE

\* A call of frame[key]
getitem(key) ==
    /\ ret' = [op |-> "getitem", key |-> key,
               outcome |-> GetItem(key).outcome, value |-> GetItem(key).value]
    /\ UNCHANGED <<ctor, ftor, result_order>>

\* A call of key in frame
contains(key) ==
    /\ ret' = [op |-> "contains", key |-> key,
               outcome |-> IF Contains(key) THEN "True" ELSE "False",
               value |-> <<>>]
    /\ UNCHANGED <<ctor, ftor, result_order>>

\* [num for _, num in sorted((r.error, assigned[r.config]) for r in results)];
\* assigned numbers the configs of common, here by the config itself
RECURSIVE SortedNums(_)
SortedNums(rs) ==
    IF rs = <<>> THEN <<>>
    ELSE LET Less(a, b) == \/ a.error < b.error
                           \/ a.error = b.error /\ a.config <= b.config
             m == CHOOSE i \in DOMAIN rs : \A j \in DOMAIN rs : Less(rs[i], rs[j])
             rest == [j \in 1..(Len(rs) - 1) |-> IF j < m THEN rs[j] ELSE rs[j + 1]]
         IN  <<rs[m].config>> \o SortedNums(rest)

\* ResultFrame.correlations(at): the outcome is the exception raised or the
\* rows x handed to np.asarray and rank_correlation, one per fidelity of at.
\* at = <<>> stands for None: the keys of _ftor, in the order they were
\* first added.
correlations(at) ==
    /\ LET firsts == {i \in DOMAIN result_order :
                        \A j \in 1..(i - 1) :
                            result_order[j].fidelity # result_order[i].fidelity}
           keys == [k \in 1..Cardinality(firsts) |->
                        result_order[SortedSeq(firsts)[k]].fidelity]
           sel == IF at = <<>> THEN keys ELSE at
           called == [type |-> "at", v |-> sel]
       IN  ret' =
             IF DOMAIN ctor = {}
             THEN [op |-> "correlations", key |-> called,
                   outcome |-> "raised RuntimeError", value |-> <<>>]
             ELSE IF Cardinality(DOMAIN ftor) <= 1
             THEN [op |-> "correlations", key |-> called,
                   outcome |-> "raised ValueError", value |-> <<>>]
             ELSE IF \E i \in DOMAIN sel : sel[i] \notin DOMAIN ftor
             THEN [op |-> "correlations", key |-> called,
                   outcome |-> "raised KeyError", value |-> <<>>]
             ELSE [op |-> "correlations", key |-> called,
                   outcome |-> "rows",
                   value |-> [i \in DOMAIN sel |-> SortedNums(ftor[sel[i]])]]
    /\ UNCHANGED <<ctor, ftor, result_order>>

NextF ==
    \/ \E r \in FrameResults : add(r) /\ UNCHANGED <<varsT, varsR, varsU, varsQ, varsY, varsD>>
    \/ \E k \in FrameKeys : getitem(k) /\ UNCHANGED <<varsT, varsR, varsU, varsQ, varsY, varsD>>
    \/ \E k \in FrameKeys : contains(k) /\ UNCHANGED <<varsT, varsR, varsU, varsQ, varsY, varsD>>
    \/ \E at \in {<<>>, <<1, 2>>, <<2>>} :
         correlations(at) /\ UNCHANGED <<varsT, varsR, varsU, varsQ, varsY, varsD>>

InitFrame == InitF /\ IdleT /\ IdleR /\ IdleU /\ IdleQ /\ IdleY /\ IdleD

SpecFrame == InitFrame /\ [][NextF]_vars

\* The configs that have a result at every fidelity of fs
CommonConfigs(fs) ==
    {c \in DOMAIN ctor :
        \A f \in fs : \E i \in DOMAIN ftor[f] : ftor[f][i].config = c}

\* C22: the rows correlations hands to rank_correlation all have the same
\* length, the number of configs that have a result at every selected
\* fidelity.
C22_RowsOfEqualLength ==
    (ret # <<>> /\ ret.op = "correlations" /\ ret.outcome = "rows") =>
        \A i \in DOMAIN ret.value :
            Len(ret.value[i]) = Cardinality(CommonConfigs(Range(ret.key.v)))

\* C27: the results are kept in the order they were added, one more with
\* every add; frame[c] is the subsequence of the results with config c and
\* frame[f] the subsequence with fidelity f, so every result is once under
\* its config and once under its fidelity; len(frame) is the number of
\* distinct configs added.
C27_FrameIndexesResults ==
    /\ [](ret # <<>> =>
            /\ DOMAIN ctor = {result_order[i].config : i \in DOMAIN result_order}
            /\ DOMAIN ftor = {result_order[i].fidelity : i \in DOMAIN result_order}
            /\ \A c \in DOMAIN ctor :
                 /\ GetItem([type |-> "Config", v |-> c]).value =
                        SelectSeq(result_order, LAMBDA r : r.config = c)
                 /\ Contains([type |-> "Config", v |-> c])
            /\ \A f \in DOMAIN ftor :
                 /\ GetItem([type |-> "int", v |-> f]).value =
                        SelectSeq(result_order, LAMBDA r : r.fidelity = f)
                 /\ Contains([type |-> "int", v |-> f]))
    /\ [][ret'.op = "add" =>
            \E r \in FrameResults : result_order' = Append(result_order, r)]_vars
    /\ [][ret'.op # "add" => result_order' = result_order]_vars

\* Three results were added, two of them of one config at two fidelities and
\* two of them at one fidelity.
C27_Witness ==
    /\ ret # <<>>
    /\ Len(result_order) = 3
    /\ Cardinality(DOMAIN ctor) = 2
    /\ Cardinality(DOMAIN ftor) = 2
    /\ Len(ctor[1]) = 2
    /\ Len(ftor[1]) = 2

\* C28: frame[k] returns a list of results exactly if k in frame is true,
\* and raises KeyError otherwise, for a key k of any type.
C28_GetItemAgreesWithContains ==
    (ret # <<>> /\ ret.op = "getitem") =>
        IF Contains(ret.key)
        THEN ret.outcome = "returned list"
        ELSE ret.outcome = "raised KeyError"

-----------------------------------------------------------------------------
(***************************************************************************)
(* The download script (mfpbench/download.py).                             *)
(*                                                                         *)
(* The directory of a source is "absent", "partial" (it exists but does    *)
(* not hold the downloaded and, for PD1, processed data) or "complete".    *)
(* A download ends in one of the outcomes of Outcomes(source); which one   *)
(* is up to the network and the programs called.                           *)
(***************************************************************************)

\* The sources in the opposite order
SourcesReversed == <<"PD1", "JAHS", "YAHPO">>

\* download_sources
Sources == <<"YAHPO", "JAHS", "PD1">>

\* How source.download() can end.
\*   YAHPO, JAHS: subprocess.run(cmd) without check: the command exits with
\*     0; or it exits non-zero, which is not looked at, and the directory is
\*     still there or has been removed by the command; or the program is
\*     not found and subprocess.run raises.
\*   PD1: urlopen / copyfileobj raises; or the tarball is fetched and
\*     process_pd1 raises; or both succeed.
Outcomes(source) ==
    IF source = "PD1"
    THEN {[steps |-> <<"urlopen">>, dir |-> "partial", exc |-> "URLError"],
          [steps |-> <<"urlopen", "process_pd1">>, dir |-> "partial",
           exc |-> "process_pd1"],
          [steps |-> <<"urlopen", "process_pd1">>, dir |-> "complete", exc |-> ""]}
    ELSE {[steps |-> <<"subprocess.run">>, dir |-> "complete", exc |-> ""],
          [steps |-> <<"subprocess.run">>, dir |-> "partial", exc |-> ""],
          [steps |-> <<"subprocess.run">>, dir |-> "absent", exc |-> ""],
          [steps |-> <<"subprocess.run">>, dir |-> "partial",
           exc |-> "FileNotFoundError"]}

\* No run yet, the data directory holds no source
InitD ==
    /\ dirs = [s \in Range(Sources) |-> "absent"]
    /\ force = FALSE
    /\ srcIdx = 0
    /\ events = <<>>
    /\ runsD = 0
    /\ excD = ""
    /\ pcD = "stopped"

\* __main__ up to the loop: the arguments are parsed
StartDownload(f) ==
    /\ pcD \in {"stopped", "done", "raised"}
    /\ runsD < MaxDownloads
    /\ force' = f
    /\ srcIdx' = 1
    /\ events' = <<>>
    /\ runsD' = runsD + 1
    /\ excD' = ""
    /\ pcD' = "running"
    /\ UNCHANGED dirs

\* One pass of the loop body, for the source at srcIdx
HandleSource ==
    /\ pcD = "running"
    /\ srcIdx <= Len(Sources)
    /\ LET source == Sources[srcIdx]
           existed == dirs[source] # "absent"
           rmtree == existed /\ force
           afterRm == IF rmtree THEN "absent" ELSE dirs[source]
       IN  IF afterRm = "absent"
           THEN \E o \in Outcomes(source) :
                  LET e == [source |-> source, existed |-> existed,
                            rmtree |-> rmtree, did |-> "download",
                            steps |-> o.steps, left |-> o.dir]
                      ex == IF o.exc # "" THEN o.exc
                            ELSE IF o.dir = "absent" THEN "RuntimeError"
                            ELSE ""
                  IN  /\ dirs' = [dirs EXCEPT ![source] = o.dir]
                      /\ events' = Append(events, e)
                      /\ excD' = ex
                      /\ pcD' = IF ex # "" THEN "raised"
                                ELSE IF srcIdx = Len(Sources) THEN "done"
                                ELSE "running"
           ELSE /\ dirs' = dirs
                /\ events' = Append(events,
                       [source |-> source, existed |-> existed,
                        rmtree |-> rmtree, did |-> "skip",
                        steps |-> <<>>, left |-> dirs[source]])
                /\ excD' = ""
                /\ pcD' = IF srcIdx = Len(Sources) THEN "done" ELSE "running"
    /\ srcIdx' = srcIdx + 1
    /\ UNCHANGED <<force, runsD>>

NextD ==
    \/ \E f \in BOOLEAN : StartDownload(f) /\ UNCHANGED <<varsT, varsR, varsU, varsQ, varsY, varsF>>
    \/ HandleSource /\ UNCHANGED <<varsT, varsR, varsU, varsQ, varsY, varsF>>

InitDownload == InitD /\ IdleT /\ IdleR /\ IdleU /\ IdleQ /\ IdleY /\ IdleF

SpecDownload == InitDownload /\ [][NextD]_vars

\* C26: a run handles the sources in the order YAHPO, JAHS, PD1; a source
\* whose directory exists is skipped and left as it is without --force, and
\* is deleted and downloaded again with --force; a source whose directory
\* does not exist is downloaded; process_pd1 runs only within a PD1 download
\* and only after the fetch of the tarball.
C26_DownloadLoop ==
    /\ [](\A i \in DOMAIN events :
            LET e == events[i]
            IN  /\ e.source = <<"YAHPO", "JAHS", "PD1">>[i]
                /\ (e.existed /\ ~force) =>
                       e.did = "skip" /\ ~e.rmtree /\ e.steps = <<>>
                /\ (e.existed /\ force) => e.did = "download" /\ e.rmtree
                /\ ~e.existed => e.did = "download" /\ ~e.rmtree
                /\ (\E k \in DOMAIN e.steps : e.steps[k] = "process_pd1") =>
                       /\ e.source = "PD1"
                       /\ e.did = "download"
                       /\ e.steps = <<"urlopen", "process_pd1">>)
    /\ [][(pcD = "running" /\ ~force /\ dirs[Sources[srcIdx]] # "absent") =>
              dirs' = dirs]_vars

\* A run with --force has deleted and downloaded YAHPO again, and has then
\* fetched and processed PD1, whose directory did not exist.
C26_Witness ==
    /\ pcD = "done"
    /\ force
    /\ Len(events) = 3
    /\ events[1].existed /\ events[1].rmtree /\ events[1].did = "download"
    /\ ~events[3].existed
    /\ events[3].steps = <<"urlopen", "process_pd1">>
    /\ dirs["PD1"] = "complete"

\* C29: a source is skipped as already downloaded only if its directory
\* holds a completed download, and a download that has failed has raised
\* RuntimeError or has left the directory of the source absent.
C29_SkippedOnlyIfComplete ==
    \A i \in DOMAIN events :
        LET e == events[i]
        IN  /\ e.did = "skip" => dirs[e.source] = "complete"
            /\ (e.did = "download" /\ e.left # "complete") =>
                   (excD = "RuntimeError" \/ dirs[e.source] = "absent")

-----------------------------------------------------------------------------
(* Further claims about the tabular re-indexer and the per-group reshaper  *)

\* C23: after the removal step a configuration (hyperparameter tuple) keeps
\* all its rows if its number of rows is the most frequent one among the
\* configurations of the csv, and none of them otherwise.
C23_KeptConfigsHaveModeCount ==
    (pcT = "ids" /\ csv # <<>>) =>
        LET hps == {csv[i].hp : i \in DOMAIN csv}
            n(h) == Cardinality({i \in DOMAIN csv : csv[i].hp = h})
            kept(h) == Cardinality({i \in DOMAIN df : df[i].hp = h})
            Freq(v) == Cardinality({h \in hps : n(h) = v})
            modes == {v \in {n(h) : h \in hps} :
                         \A h \in hps : Freq(n(h)) <= Freq(v)}
        IN  \E m \in modes :
                \A h \in hps : kept(h) = IF n(h) = m THEN n(h) ELSE 0

\* C30: the stride-1 file of handle_subepoch_fidelities has one row for every
\* row of the table the function was given.
C30_Stride1KeepsEveryRow ==
    (pcT # "idle" /\ parquet[1].written) =>
        /\ Len(parquet[1].rows) = Len(df_backup)
        /\ \A i \in DOMAIN df_backup :
             \E j \in DOMAIN parquet[1].rows :
                 parquet[1].rows[j].idx = df_backup[i].idx

\* C24: after the rows without a cost are removed, the table has a row for
\* list position i of a source record exactly if the raw costs of the record
\* at the positions 1..i are all defined, and the cost of that row is their
\* sum; a record whose cost is a scalar NaN has no row.
C24_RowIffPrefixDefined ==
    pcR = "filter" =>
        /\ \A k \in DOMAIN group :
             LET c == group[k].train_cost
                 rowsOf(i) == {j \in DOMAIN dataset :
                                  dataset[j].rec = k /\ dataset[j].pos = i}
             IN  IF c.scalar
                 THEN \A j \in DOMAIN dataset : dataset[j].rec # k
                 ELSE \A i \in DOMAIN c.items :
                        IF \A m \in 1..i : c.items[m] # NaN
                        THEN /\ Cardinality(rowsOf(i)) = 1
                             /\ \A j \in rowsOf(i) :
                                  dataset[j].train_cost = SumTo(c.items, i)
                        ELSE rowsOf(i) = {}
        /\ \A j \in DOMAIN dataset :
             /\ dataset[j].rec \in DOMAIN group
             /\ ~group[dataset[j].rec].train_cost.scalar
             /\ dataset[j].pos \in DOMAIN group[dataset[j].rec].train_cost.items

\* A record with the costs [2, 1] has its two rows with the costs 2 and 3,
\* and a record with the costs [NaN, 1] has none.
C24_Witness ==
    /\ pcR = "filter"
    /\ Len(group) = 2
    /\ group[1].train_cost = List(<<2, 1>>)
    /\ group[2].train_cost = List(<<NaN, 1>>)
    /\ Len(dataset) = 2
    /\ dataset[1].train_cost = 2
    /\ dataset[2].train_cost = 3

=============================================================================
